---- MODULE Spec2Model ----
(***************************************************************************)
(* A model of the remark-lint rules of this repository.  A rule is a      *)
(* function (tree, file, options): it validates its options, then walks   *)
(* the tree with unist-util-visit and appends messages to the file.  One  *)
(* action models the set-up of a rule (everything before the call of      *)
(* visit) and one action models one call of its visitor.                   *)
(*                                                                         *)
(* Text is a sequence of one-character strings.  JavaScript values that    *)
(* can be of several types (options, the preferred-value cell) are        *)
(* records tagged with their type.                                         *)
(*                                                                         *)
(* `others` holds the runs other than the current one, for the             *)
(* specifications in which a rule is run several times or two rules are   *)
(* run over one tree; it is empty everywhere else.                         *)
(***************************************************************************)
EXTENDS Integers, Sequences, FiniteSets, TLC

VARIABLES rule, options, contents, tree, pc, todo, preferred, map, stack,
          last, messages, others

vars == <<rule, options, contents, tree, pc, todo, preferred, map, stack,
          last, messages, others>>

(***************************************************************************)
(* Bounds.                                                                 *)
(***************************************************************************)
\* largest number of snippets of a document of the rules that infer a
\* preferred value
MaxNodes == 3

\* largest number of snippets of a document of the rules that look for
\* duplicates
MaxHeadings == 4

\* largest number of nodes below the root of a tree of no-missing-blank-lines
MaxBlocks == 4

\* largest number of nodes below the root of a tree of final-definition
MaxFinal == 3

\* headings in a document checked by no-heading-punctuation
MaxTitles == 3

\* largest length of the text of a file checked by final-newline
MaxChars == 3

\* largest number of snippets of a document of a rule that is run on one
\* document after another
MaxRunNodes == 2

\* largest number of snippets of a document that two rules check together
\* the most items of a list of a document of list-item-spacing
MaxItems == 3

\* the most headings of a document on which the two rules about repeated
\* headings are compared
MaxSections == 3

\* the most nodes of a document of no-reference-like-url
MaxReferences == 3

MaxTogether == 3

(***************************************************************************)
(* JavaScript values.                                                      *)
(***************************************************************************)
JsUndefined == [kind |-> "undefined"]
JsNaN == [kind |-> "NaN"]
JsStr(s) == [kind |-> "string", value |-> s]
JsNum(n) == [kind |-> "number", value |-> n]
JsBool(b) == [kind |-> "boolean", value |-> b]

\* ToBoolean: what `x || y`, `x ? y : z` and `if (x)` test
Truthy(v) ==
    CASE v.kind = "string" -> v.value # <<>>
      [] v.kind = "number" -> v.value # 0
      [] v.kind = "boolean" -> v.value
      [] v.kind = "object" -> TRUE
      [] OTHER -> FALSE

Digits == <<"0", "1", "2", "3", "4", "5", "6", "7", "8", "9">>

IsDigit(c) == \E i \in 1..Len(Digits) : Digits[i] = c

DigitValue(c) == (CHOOSE i \in 1..Len(Digits) : Digits[i] = c) - 1

RECURSIVE DecimalValue(_)
DecimalValue(s) ==
    IF s = <<>> THEN 0
    ELSE 10 * DecimalValue(SubSeq(s, 1, Len(s) - 1)) + DigitValue(s[Len(s)])

\* ToNumber, as applied by the operator `-`
ToNumber(v) ==
    CASE v.kind = "number" -> v
      [] v.kind = "string" ->
            IF \A i \in 1..Len(v.value) : IsDigit(v.value[i])
            THEN JsNum(DecimalValue(v.value))
            ELSE JsNaN
      [] OTHER -> JsNaN

\* a - b
Minus(a, b) ==
    LET x == ToNumber(a)
        y == ToNumber(b)
    IN  IF x.kind = "number" /\ y.kind = "number"
        THEN JsNum(x.value - y.value)
        ELSE JsNaN

\* the string 'consistent'
Consistent == JsStr(<<"c", "o", "n", "s", "i", "s", "t", "e", "n", "t">>)

(***************************************************************************)
(* Positions.  A point is a record of line, column and offset; a node     *)
(* without position has NoPoint for its start and its end.                 *)
(***************************************************************************)
NoPoint == [kind |-> "undefined"]

Point(l, c, o) == [kind |-> "point", line |-> l, column |-> c, offset |-> o]

HasPoint(p) == p.kind = "point"

\* unist-util-generated
generated(node) == ~HasPoint(node.start) \/ ~HasPoint(node.end)

(***************************************************************************)
(* Messages.  file.message appends a warning, file.fail appends a fatal   *)
(* message and throws, which ends the run.                                 *)
(***************************************************************************)
Message(text, arg, node, place) ==
    [fatal |-> FALSE, text |-> text, arg |-> arg, node |-> node,
     place |-> place]

Fatal(text, arg) ==
    [fatal |-> TRUE, text |-> text, arg |-> arg, node |-> 0,
     place |-> NoPoint]

\* the nodes of the tree of the given types, in document order: the calls
\* visit(tree, test, visitor) makes
RECURSIVE Matching(_, _, _)
Matching(t, types, i) ==
    IF i > Len(t) THEN <<>>
    ELSE (IF t[i].type \in types THEN <<i>> ELSE <<>>)
         \o Matching(t, types, i + 1)

(***************************************************************************)
(* Trees.  A tree is the sequence of its nodes in document order (a node   *)
(* before its children, children from first to last); node 1 is the root  *)
(* and `parent` is the index of the parent of a node, 0 for the root.     *)
(* Every node has the fields of mdast that the rules read: type, start    *)
(* and end, depth (headings), identifier (definitions) and value (text,   *)
(* html).                                                                  *)
(***************************************************************************)
Node(type, parent, start, end) ==
    [type |-> type, parent |-> parent, start |-> start, end |-> end,
     depth |-> 0, identifier |-> <<>>, value |-> <<>>]

\* node.children, as the indices of the children
Children(t, i) ==
    SelectSeq([k \in 1..Len(t) |-> k], LAMBDA k : t[k].parent = i)

\* index of a node in parent.children, counted from 0
IndexInParent(t, i) ==
    Cardinality({k \in 1..(i - 1) : t[k].parent = t[i].parent})

\* mdast-util-to-string: the value of a node or else the text of its children
RECURSIVE toString(_, _)
RECURSIVE toStringAll(_, _)
toString(t, i) ==
    IF Children(t, i) = <<>> THEN t[i].value
    ELSE toStringAll(t, Children(t, i))

toStringAll(t, kids) ==
    IF kids = <<>> THEN <<>>
    ELSE toString(t, Head(kids)) \o toStringAll(t, Tail(kids))

(***************************************************************************)
(* Documents made of source snippets.  Such a document is a sequence of   *)
(* snippets, one per line and separated by blank lines, as the parser      *)
(* would see them; each snippet becomes one child of the root whose       *)
(* points are those of its text.  `kids` lists the children of that node  *)
(* as [type, from, to], with from and to the offsets of the child inside  *)
(* the snippet.  A generated snippet has no source: its nodes have no     *)
(* position.                                                               *)
(***************************************************************************)
Snippet(type, text, kids) ==
    [type |-> type, text |-> text, kids |-> kids, generated |-> FALSE,
     depth |-> 0, identifier |-> <<>>]

GeneratedSnippet(type) ==
    [type |-> type, text |-> <<>>, kids |-> <<>>, generated |-> TRUE,
     depth |-> 0, identifier |-> <<>>]

Kid(type, from, to) == [type |-> type, from |-> from, to |-> to]

\* the nodes the parser makes of snippet `it` found at `offset` on `line`,
\* when the tree has n nodes already: the node and its children
NodeOf(it, offset, line, n) ==
    <<[Node(it.type, 1,
            IF it.generated THEN NoPoint ELSE Point(line, 1, offset),
            IF it.generated THEN NoPoint
            ELSE Point(line, 1 + Len(it.text), offset + Len(it.text)))
       EXCEPT !.depth = it.depth, !.identifier = it.identifier]>>
    \o [k \in 1..Len(it.kids) |->
           [Node(it.kids[k].type, n + 1,
                 IF it.generated THEN NoPoint
                 ELSE Point(line, 1 + it.kids[k].from, offset + it.kids[k].from),
                 IF it.generated THEN NoPoint
                 ELSE Point(line, 1 + it.kids[k].to, offset + it.kids[k].to))
            EXCEPT !.value = SubSeq(it.text, it.kids[k].from + 1, it.kids[k].to)]]

\* the text of the file: every snippet followed by a blank line
RECURSIVE SourceOf(_)
SourceOf(items) ==
    IF items = <<>> THEN <<>>
    ELSE (IF Head(items).generated THEN <<>>
          ELSE Head(items).text \o <<"\n", "\n">>)
         \o SourceOf(Tail(items))

\* the nodes below the root, in document order
RECURSIVE NodesOf(_, _, _, _)
NodesOf(items, offset, line, n) ==
    IF items = <<>> THEN <<>>
    ELSE LET it == Head(items)
             made == NodeOf(it, offset, line, n)
         IN  made
             \o (IF it.generated
                 THEN NodesOf(Tail(items), offset, line, n + Len(made))
                 ELSE NodesOf(Tail(items), offset + Len(it.text) + 2,
                              line + 2, n + Len(made)))

\* the tree of a document
TreeOf(items) ==
    <<Node("root", 0, Point(1, 1, 0),
           Point(1 + 2 * Cardinality({k \in 1..Len(items) : ~items[k].generated}),
                 1, Len(SourceOf(items))))>>
    \o NodesOf(items, 0, 1, 1)

\* all sequences over S of length at most n
RECURSIVE SeqsUpTo(_, _)
SeqsUpTo(S, n) ==
    IF n = 0 THEN {<<>>}
    ELSE LET shorter == SeqsUpTo(S, n - 1)
         IN  shorter \cup {Append(q, x) : q \in shorter, x \in S}

\* String.prototype.slice(from, to) with 0 <= from <= to
Slice(text, from, to) == SubSeq(text, from + 1, to)

\* String.prototype.charAt(i): the empty string when i is out of range
CharAt(text, i) == IF i >= 0 /\ i < Len(text) THEN text[i + 1] ELSE ""

\* String.prototype.lastIndexOf(c, from): the last index <= from at which the
\* character c occurs, or -1; a negative from counts as 0
LastIndexOf(text, c, from) ==
    LET limit == IF from < 0 THEN 0 ELSE from
        hits == {i \in 0..(Len(text) - 1) : text[i + 1] = c /\ i <= limit}
    IN  IF hits = {} THEN -1
        ELSE CHOOSE i \in hits : \A j \in hits : j <= i

\* /\s/.test(c) for the characters of the model
IsWhitespace(c) == c \in {" ", "\n", "\t"}

(***************************************************************************)
(* The rules that infer a preferred value: rule-style (in its two         *)
(* versions, remarkLintRuleStyle and ruleStyle), blockquote-indentation   *)
(* and link-title-style.  `preferred` is the cell the visitor reads and   *)
(* writes: `option` in remarkLintRuleStyle and in                          *)
(* remarkLintBlockquoteIndentation, `preferred` in ruleStyle and in       *)
(* linkTitleStyle.                                                         *)
(***************************************************************************)
JsNull == [kind |-> "null"]

Stars == <<"*", "*", "*">>
Dashes == <<"-", "-", "-">>
Spaced == <<"*", " ", "*", " ", "*">>

RulePalette ==
    {Snippet("thematicBreak", Stars, <<>>),
     Snippet("thematicBreak", Dashes, <<>>),
     Snippet("thematicBreak", Spaced, <<>>),
     GeneratedSnippet("thematicBreak"),
     Snippet("paragraph", <<"a">>, <<Kid("text", 0, 1)>>)}

RuleOptions ==
    {JsUndefined, Consistent, JsStr(<<>>), JsStr(Stars), JsStr(Dashes),
     JsStr(Spaced), JsStr(<<"*", "x", "*">>), JsStr(<<"~", "~", "~">>),
     JsStr(<<"*", "*">>), JsStr(<<"*", "-", "_">>)}

\* /[^-_* ]/.test(s)
HasOtherThanMarker(s) == \E i \in 1..Len(s) : s[i] \notin {"-", "_", "*", " "}

\* the reason of the failure of rule-style (without the backticks of the
\* source); no part of it comes from the option
IncorrectRuleStyle ==
    "Incorrect preferred rule style: provide a correct markdown rule or 'consistent'"

\* remarkLintRuleStyle, up to the call of visit
remarkLintRuleStyleSetup ==
    /\ rule = "remarkLintRuleStyle"
    /\ pc = "start"
    /\ LET option == IF Truthy(options) THEN options ELSE Consistent
       IN  IF option # Consistent /\ HasOtherThanMarker(option.value)
           THEN /\ messages' = Append(messages, Fatal(IncorrectRuleStyle, JsUndefined))
                /\ pc' = "failed"
                /\ UNCHANGED <<preferred, todo>>
           ELSE /\ preferred' = option
                /\ todo' = Matching(tree, {"thematicBreak"}, 1)
                /\ pc' = "visit"
                /\ UNCHANGED messages
    /\ UNCHANGED <<others, rule, options, contents, tree, map, stack, last>>

\* remarkLintRuleStyleVisit, had it adopted every new style it meets
remarkLintRuleStyleVisitLastSeen ==
    /\ rule = "remarkLintRuleStyle"
    /\ pc = "visit"
    /\ todo # <<>>
    /\ LET node == tree[Head(todo)]
           end == node.end
           start == node.start
       IN  IF HasPoint(start) /\ HasPoint(end)
           THEN LET found == JsStr(Slice(contents, start.offset, end.offset))
                IN  IF preferred = Consistent
                    THEN /\ preferred' = found
                         /\ UNCHANGED messages
                    ELSE IF found # preferred
                    THEN /\ messages' = Append(messages,
                              Message("Rules should use", preferred,
                                      Head(todo), node.start))
                         /\ preferred' = found
                    ELSE UNCHANGED <<preferred, messages>>
           ELSE UNCHANGED <<preferred, messages>>
    /\ todo' = Tail(todo)
    /\ UNCHANGED <<others, rule, options, contents, tree, pc, map, stack, last>>

\* one call of the visitor of remarkLintRuleStyle
remarkLintRuleStyleVisit ==
    /\ rule = "remarkLintRuleStyle"
    /\ pc = "visit"
    /\ todo # <<>>
    /\ LET node == tree[Head(todo)]
           end == node.end
           start == node.start
       IN  IF HasPoint(start) /\ HasPoint(end)
           THEN LET found == JsStr(Slice(contents, start.offset, end.offset))
                IN  IF preferred = Consistent
                    THEN /\ preferred' = found
                         /\ UNCHANGED messages
                    ELSE IF found # preferred
                    THEN /\ messages' = Append(messages,
                              Message("Rules should use", preferred,
                                      Head(todo), node.start))
                         /\ UNCHANGED preferred
                    ELSE UNCHANGED <<preferred, messages>>
           ELSE UNCHANGED <<preferred, messages>>
    /\ todo' = Tail(todo)
    /\ UNCHANGED <<others, rule, options, contents, tree, pc, map, stack, last>>

\* ruleStyle, up to the call of visit
ruleStyleSetup ==
    /\ rule = "ruleStyle"
    /\ pc = "start"
    /\ LET initial == IF options.kind = "string" /\ options # Consistent
                      THEN options ELSE JsNull
       IN  IF initial # JsNull /\ HasOtherThanMarker(initial.value)
           THEN /\ messages' = Append(messages, Fatal(IncorrectRuleStyle, JsUndefined))
                /\ pc' = "failed"
                /\ UNCHANGED <<preferred, todo>>
           ELSE /\ preferred' = initial
                /\ todo' = Matching(tree, {"thematicBreak"}, 1)
                /\ pc' = "visit"
                /\ UNCHANGED messages
    /\ UNCHANGED <<others, rule, options, contents, tree, map, stack, last>>

\* one call of the visitor of ruleStyle
ruleStyleVisit ==
    /\ rule = "ruleStyle"
    /\ pc = "visit"
    /\ todo # <<>>
    /\ LET node == tree[Head(todo)]
       IN  IF ~generated(node)
           THEN LET found == JsStr(Slice(contents, node.start.offset,
                                         node.end.offset))
                IN  IF Truthy(preferred)
                    THEN IF found # preferred
                         THEN /\ messages' = Append(messages,
                                   Message("Rules should use",
                                           preferred, Head(todo), node.start))
                              /\ UNCHANGED preferred
                         ELSE UNCHANGED <<preferred, messages>>
                    ELSE /\ preferred' = found
                         /\ UNCHANGED messages
           ELSE UNCHANGED <<preferred, messages>>
    /\ todo' = Tail(todo)
    /\ UNCHANGED <<others, rule, options, contents, tree, pc, map, stack, last>>

QuotePalette ==
    {Snippet("blockquote", <<">", "a">>, <<Kid("paragraph", 1, 2)>>),
     Snippet("blockquote", <<">", " ", "a">>, <<Kid("paragraph", 2, 3)>>),
     Snippet("blockquote", <<">", " ", " ", "a">>, <<Kid("paragraph", 3, 4)>>),
     Snippet("blockquote", <<">">>, <<>>),
     GeneratedSnippet("blockquote"),
     Snippet("paragraph", <<"a">>, <<Kid("text", 0, 1)>>)}

QuoteOptions ==
    {JsUndefined, Consistent, JsNum(0), JsNum(1), JsNum(2), JsStr(<<"x">>)}

\* pointStart(node.children[0])
HeadStart(t, i) ==
    IF Children(t, i) = <<>> THEN NoPoint ELSE t[Children(t, i)[1]].start

\* Math.abs
Abs(n) == IF n < 0 THEN 0 - n ELSE n

\* remarkLintBlockquoteIndentation, up to the call of visit
remarkLintBlockquoteIndentationSetup ==
    /\ rule = "remarkLintBlockquoteIndentation"
    /\ pc = "start"
    /\ preferred' = IF Truthy(options) THEN options ELSE Consistent
    /\ todo' = Matching(tree, {"blockquote"}, 1)
    /\ pc' = "visit"
    /\ UNCHANGED <<others, rule, options, contents, tree, map, stack, last, messages>>

\* one call of the visitor of remarkLintBlockquoteIndentation
remarkLintBlockquoteIndentationVisit ==
    /\ rule = "remarkLintBlockquoteIndentation"
    /\ pc = "visit"
    /\ todo # <<>>
    /\ LET node == tree[Head(todo)]
           start == node.start
           head == HeadStart(tree, Head(todo))
       IN  IF HasPoint(head) /\ HasPoint(start)
           THEN LET count == JsNum(head.column - start.column)
                    diff == Minus(preferred, count)
                IN  IF preferred = Consistent
                    THEN /\ preferred' = count
                         /\ UNCHANGED messages
                    ELSE IF diff # JsNum(0)
                    THEN /\ messages' = Append(messages,
                              Message(IF diff.kind = "number" /\ diff.value > 0
                                      THEN "Add" ELSE "Remove",
                                      IF diff.kind = "number"
                                      THEN JsNum(Abs(diff.value)) ELSE JsNaN,
                                      Head(todo), head))
                         /\ UNCHANGED preferred
                    ELSE UNCHANGED <<preferred, messages>>
           ELSE UNCHANGED <<preferred, messages>>
    /\ todo' = Tail(todo)
    /\ UNCHANGED <<others, rule, options, contents, tree, pc, map, stack, last>>

LinkText(label, title) ==
    <<"[", label, "]", "(", "u", " ">> \o title \o <<")">>

TitlePalette ==
    {Snippet("link", LinkText("a", <<"\"", "t", "\"">>), <<Kid("text", 1, 2)>>),
     Snippet("link", LinkText("a", <<"'", "t", "'">>), <<Kid("text", 1, 2)>>),
     Snippet("link", LinkText("a", <<"(", "t", ")">>), <<Kid("text", 1, 2)>>),
     Snippet("link", <<"[", "a", "]", "(", "u", ")">>, <<Kid("text", 1, 2)>>),
     Snippet("link", <<"[", "a", "]", "(", "#", "(", "o", ")", ")">>,
             <<Kid("text", 1, 2)>>),
     Snippet("link", <<"[", "b", " ", "\"", "c", "]", "(", "u", "\"", ")">>,
             <<Kid("text", 1, 5)>>),
     Snippet("image", <<"!">> \o LinkText("a", <<"'", "t", "'">>), <<>>),
     Snippet("definition", <<"[", "a", "]", ":", " ", "u", " ", "\"", "t", "\"">>,
             <<>>),
     Snippet("definition", <<"[", "a", "]", ":", " ", "u">>, <<>>),
     GeneratedSnippet("link")}

TitleOptions ==
    {JsUndefined, Consistent, JsStr(<<>>), JsStr(<<"\"">>), JsStr(<<"'">>),
     JsStr(<<"(", ")">>), JsStr(<<"(">>), JsStr(<<")">>), JsStr(<<"x">>)}

\* the closing characters of a title, with the opening character of each
markers == [c \in {"\"", "'", ")"} |-> IF c = ")" THEN "(" ELSE c]

\* the loop that skips back to before whitespace: the index it stops at and
\* the character read last
RECURSIVE SkipBack(_, _, _)
SkipBack(text, at, final) ==
    IF at = 0 THEN [last |-> at, final |-> final]
    ELSE LET c == CharAt(text, at)
         IN  IF IsWhitespace(c) THEN SkipBack(text, at - 1, c)
             ELSE [last |-> at, final |-> c]

\* first <= begin, with begin a point: the point converts to NaN, and every
\* comparison with NaN is false
NumberAtMostPoint(first, begin) == FALSE

\* what check finds in a node that is not generated: whether it has a title
\* and, when it has, the closing character and the offsets of the title
TitleOf(text, t, i) ==
    LET node == t[i]
        kids == Children(t, i)
        tail == IF kids # <<>> THEN t[kids[Len(kids)]] ELSE JsNull
        begin == IF tail # JsNull THEN tail.end ELSE node.start
        from == IF node.type # "definition"
                THEN node.end.offset - 2 ELSE node.end.offset - 1
        back == SkipBack(text, from, "")
        final == back.final
        initial == IF final \in DOMAIN markers THEN markers[final] ELSE ""
        first == LastIndexOf(text, initial, back.last - 1)
    IN  IF final \notin DOMAIN markers
        THEN [title |-> FALSE]
        ELSE IF NumberAtMostPoint(first, begin)
                \/ ~IsWhitespace(CharAt(text, first - 1))
        THEN [title |-> FALSE]
        ELSE [title |-> TRUE, final |-> final, first |-> first,
              last |-> back.last]

\* the reason of the failure of link-title-style (without the backticks of
\* the source); the marker is put after the word `marker`
IncorrectLinkTitleStyle ==
    "Incorrect link title style marker : use either 'consistent', '\"', ''', or '()'"

\* linkTitleStyleSetup, had it reported the option with file.message, which
\* does not throw
linkTitleStyleSetupWarns ==
    /\ rule = "linkTitleStyle"
    /\ pc = "start"
    /\ LET given == IF options.kind = "string" /\ options # Consistent
                    THEN options ELSE JsNull
           initial == IF given = JsStr(<<"(", ")">>) \/ given = JsStr(<<"(">>)
                      THEN JsStr(<<")">>) ELSE given
       IN  /\ messages' =
                IF Truthy(initial)
                   /\ ~(Len(initial.value) = 1 /\ initial.value[1] \in DOMAIN markers)
                THEN Append(messages,
                            Fatal(IncorrectLinkTitleStyle, initial))
                ELSE messages
           /\ preferred' = initial
           /\ todo' = Matching(tree, {"link", "image", "definition"}, 1)
           /\ pc' = "visit"
    /\ UNCHANGED <<others, rule, options, contents, tree, map, stack, last>>

\* linkTitleStyle, up to the call of visit
linkTitleStyleSetup ==
    /\ rule = "linkTitleStyle"
    /\ pc = "start"
    /\ LET given == IF options.kind = "string" /\ options # Consistent
                    THEN options ELSE JsNull
           initial == IF given = JsStr(<<"(", ")">>) \/ given = JsStr(<<"(">>)
                      THEN JsStr(<<")">>) ELSE given
       IN  IF Truthy(initial)
              /\ ~(Len(initial.value) = 1 /\ initial.value[1] \in DOMAIN markers)
           THEN /\ messages' = Append(messages,
                     Fatal(IncorrectLinkTitleStyle, initial))
                /\ pc' = "failed"
                /\ UNCHANGED <<preferred, todo>>
           ELSE /\ preferred' = initial
                /\ todo' = Matching(tree, {"link", "image", "definition"}, 1)
                /\ pc' = "visit"
                /\ UNCHANGED messages
    /\ UNCHANGED <<others, rule, options, contents, tree, map, stack, last>>

\* one call of check, the visitor of linkTitleStyle
linkTitleStyleVisit ==
    /\ rule = "linkTitleStyle"
    /\ pc = "visit"
    /\ todo # <<>>
    /\ LET node == tree[Head(todo)]
           found == TitleOf(contents, tree, Head(todo))
       IN  IF generated(node) \/ ~found.title
           THEN UNCHANGED <<preferred, messages>>
           ELSE IF Truthy(preferred)
           THEN IF preferred # JsStr(<<found.final>>)
                THEN /\ messages' = Append(messages,
                          Message("Titles should use as a quote", preferred,
                                  Head(todo),
                                  [start |-> found.first,
                                   end |-> found.last + 1]))
                     /\ UNCHANGED preferred
                ELSE UNCHANGED <<preferred, messages>>
           ELSE /\ preferred' = JsStr(<<found.final>>)
                /\ UNCHANGED messages
    /\ todo' = Tail(todo)
    /\ UNCHANGED <<others, rule, options, contents, tree, pc, map, stack, last>>

ConsistencyRules ==
    {"remarkLintRuleStyle", "ruleStyle", "remarkLintBlockquoteIndentation",
     "linkTitleStyle"}

PaletteOf(r) ==
    CASE r \in {"remarkLintRuleStyle", "ruleStyle"} -> RulePalette
      [] r = "remarkLintBlockquoteIndentation" -> QuotePalette
      [] r = "linkTitleStyle" -> TitlePalette

OptionsOf(r) ==
    CASE r \in {"remarkLintRuleStyle", "ruleStyle"} -> RuleOptions
      [] r = "remarkLintBlockquoteIndentation" -> QuoteOptions
      [] r = "linkTitleStyle" -> TitleOptions

\* the state in which a rule is called: nothing visited, nothing reported
Fresh ==
    /\ pc = "start"
    /\ todo = <<>>
    /\ preferred = JsUndefined
    /\ map = <<>>
    /\ stack = <<>>
    /\ last = 0
    /\ messages = <<>>
    /\ others = <<>>

InitConsistency ==
    /\ rule \in ConsistencyRules
    /\ options \in OptionsOf(rule)
    /\ \E items \in SeqsUpTo(PaletteOf(rule), MaxNodes) :
          /\ contents = SourceOf(items)
          /\ tree = TreeOf(items)
    /\ Fresh

NextConsistency ==
    \/ remarkLintRuleStyleSetup
    \/ remarkLintRuleStyleVisit
    \/ ruleStyleSetup
    \/ ruleStyleVisit
    \/ remarkLintBlockquoteIndentationSetup
    \/ remarkLintBlockquoteIndentationVisit
    \/ linkTitleStyleSetup
    \/ linkTitleStyleVisit

SpecConsistency == InitConsistency /\ [][NextConsistency]_vars

\* the rule has returned or thrown
Returned == pc = "visit" /\ todo = <<>>

Failed == pc = "failed"

(***************************************************************************)
(* Properties of the rules that infer a preferred value.                   *)
(***************************************************************************)
\* the types of node the visitor of a rule is called on
TypesOf(r) ==
    CASE r \in {"remarkLintRuleStyle", "ruleStyle"} -> {"thematicBreak"}
      [] r = "remarkLintBlockquoteIndentation" -> {"blockquote"}
      [] r = "linkTitleStyle" -> {"link", "image", "definition"}

\* whether node i is a positioned qualifying node of rule r
Qualifies(r, i) ==
    LET node == tree[i]
    IN  CASE r = "remarkLintRuleStyle" -> HasPoint(node.start) /\ HasPoint(node.end)
          [] r = "ruleStyle" -> ~generated(node)
          [] r = "remarkLintBlockquoteIndentation" ->
                HasPoint(HeadStart(tree, i)) /\ HasPoint(node.start)
          [] r = "linkTitleStyle" ->
                ~generated(node) /\ TitleOf(contents, tree, i).title

\* the value rule r observes at the qualifying node i
Observed(r, i) ==
    LET node == tree[i]
    IN  CASE r \in {"remarkLintRuleStyle", "ruleStyle"} ->
                JsStr(Slice(contents, node.start.offset, node.end.offset))
          [] r = "remarkLintBlockquoteIndentation" ->
                JsNum(HeadStart(tree, i).column - node.start.column)
          [] r = "linkTitleStyle" -> JsStr(<<TitleOf(contents, tree, i).final>>)

\* the qualifying nodes of the tree, in document order
Observations == SelectSeq(Matching(tree, TypesOf(rule), 1),
                          LAMBDA i : Qualifies(rule, i))

\* a value is configured: an option is given and it is not 'consistent'
IsConfigured == Truthy(options) /\ options # Consistent

\* the configured value; the parentheses of link-title-style are named by
\* '()', '(' or ')' and observed as ')'
ConfiguredValue ==
    IF rule = "linkTitleStyle" /\ options \in {JsStr(<<"(", ")">>), JsStr(<<"(">>)}
    THEN JsStr(<<")">>)
    ELSE options

\* the nodes that are to be reported: the observations that differ from the
\* configured value or, when none is configured, from the first observation
Expected ==
    IF IsConfigured
    THEN SelectSeq(Observations,
                   LAMBDA i : Observed(rule, i) # ConfiguredValue)
    ELSE IF Observations = <<>> THEN <<>>
    ELSE SelectSeq(Tail(Observations),
                   LAMBDA i : Observed(rule, i) # Observed(rule, Observations[1]))

\* the nodes of the warnings, in the order of the warnings
Reported == [k \in 1..Len(messages) |-> messages[k].node]

Warnings == SelectSeq(messages, LAMBDA m : ~m.fatal)

\* C1: when rule-style, blockquote-indentation or link-title-style has
\* returned, its messages are exactly the observations, in document order,
\* that differ from the configured value or, when no value is configured,
\* from the first observation.
C1_FirstSeenWins ==
    (rule \in ConsistencyRules /\ Returned) => Reported = Expected

\* observations [A, B, A] in 'consistent' mode: one message, on B
C1_Witness ==
    /\ rule \in ConsistencyRules
    /\ Returned
    /\ ~IsConfigured
    /\ Len(Observations) = 3
    /\ Observed(rule, Observations[1]) = Observed(rule, Observations[3])
    /\ Observed(rule, Observations[1]) # Observed(rule, Observations[2])
    /\ Reported = <<Observations[2]>>

\* the option is a string that the rule does not know
Unrecognized ==
    /\ options.kind = "string"
    /\ options.value # <<>>
    /\ CASE rule \in {"remarkLintRuleStyle", "ruleStyle"} ->
               /\ options # Consistent
               /\ \E i \in 1..Len(options.value) :
                     options.value[i] \notin {"*", "-", "_", " "}
         [] rule = "linkTitleStyle" ->
               options \notin {Consistent, JsStr(<<"\"">>), JsStr(<<"'">>),
                               JsStr(<<"(", ")">>), JsStr(<<"(">>),
                               JsStr(<<")">>)}
         [] OTHER -> FALSE

\* C2: with an unrecognized option, rule-style and link-title-style do not
\* get past their set-up: the run fails with one fatal message, no node is
\* visited and no warning is produced.
C2_FailBeforeVisit ==
    Unrecognized =>
        /\ pc \in {"start", "failed"}
        /\ todo = <<>>
        /\ preferred = JsUndefined
        /\ Warnings = <<>>
        /\ pc = "failed" => (Len(messages) = 1 /\ messages[1].fatal)

\* a failed run on a tree with nodes that disagree with one another
C2_Witness ==
    /\ Unrecognized
    /\ pc = "failed"
    /\ Len(Observations) >= 2
    /\ Observed(rule, Observations[1]) # Observed(rule, Observations[2])

\* a correct thematic break: at least three of one same marker, with or
\* without spaces between them
CorrectRule(s) ==
    \E m \in {"*", "-", "_"} :
        /\ \A i \in 1..Len(s) : s[i] \in {m, " "}
        /\ Cardinality({i \in 1..Len(s) : s[i] = m}) >= 3

\* the option of rule-style is a string other than 'consistent' that is not
\* a correct thematic break
IncorrectRule ==
    /\ rule \in {"remarkLintRuleStyle", "ruleStyle"}
    /\ options.kind = "string"
    /\ options.value # <<>>
    /\ options # Consistent
    /\ ~CorrectRule(options.value)

\* C12: rule-style accepts a configured style only when it is 'consistent'
\* or a correct thematic break: with any other non-empty string the run
\* never gets to the traversal, it fails during set-up.
C12_OnlyCorrectRules ==
    IncorrectRule => (pc \in {"start", "failed"} /\ Warnings = <<>>)

\* C13: a fatal message has no position, names the value of the option that
\* was rejected and lists the accepted alternatives, in rule-style and in
\* link-title-style.
C13_FatalNamesValue ==
    \A k \in 1..Len(messages) :
        messages[k].fatal =>
            /\ messages[k].place = NoPoint
            /\ messages[k].node = 0
            /\ messages[k].arg = options
            /\ messages[k].text \in {IncorrectRuleStyle, IncorrectLinkTitleStyle}

\* the option of blockquote-indentation is neither a number nor 'consistent'
InvalidQuoteOption ==
    /\ rule = "remarkLintBlockquoteIndentation"
    /\ options.kind = "string"
    /\ options.value # <<>>
    /\ options # Consistent

\* C3: blockquote-indentation rejects an option that is neither a number nor
\* 'consistent' before it visits a block quote: with such an option the run
\* never gets to the traversal and produces no warning.
C3_QuoteOptionRejected ==
    InvalidQuoteOption => (pc \in {"start", "failed"} /\ Warnings = <<>>)

(***************************************************************************)
(* The rules that look for duplicates: no-duplicate-headings,              *)
(* no-duplicate-definitions and no-duplicate-headings-in-section.          *)
(***************************************************************************)
LowerCase == <<"a", "b", "c", "d", "e", "f", "g", "h", "i", "j", "k", "l", "m",
               "n", "o", "p", "q", "r", "s", "t", "u", "v", "w", "x", "y", "z">>

UpperCase == <<"A", "B", "C", "D", "E", "F", "G", "H", "I", "J", "K", "L", "M",
               "N", "O", "P", "Q", "R", "S", "T", "U", "V", "W", "X", "Y", "Z">>

\* String.prototype.toUpperCase
toUpperCase(s) ==
    [k \in 1..Len(s) |->
        IF \E j \in 1..26 : LowerCase[j] = s[k]
        THEN UpperCase[CHOOSE j \in 1..26 : LowerCase[j] = s[k]]
        ELSE s[k]]

\* String.prototype.toLowerCase
toLowerCase(s) ==
    [k \in 1..Len(s) |->
        IF \E j \in 1..26 : UpperCase[j] = s[k]
        THEN LowerCase[CHOOSE j \in 1..26 : UpperCase[j] = s[k]]
        ELSE s[k]]

\* String(n) for a natural number n
RECURSIVE ToDecimal(_)
ToDecimal(n) ==
    IF n < 10 THEN <<Digits[n + 1]>>
    ELSE ToDecimal(n \div 10) \o <<Digits[(n % 10) + 1]>>

\* unist-util-stringify-position of a point: line:column, with 1 for a
\* line or column that is missing
stringifyPosition(point) ==
    IF HasPoint(point)
    THEN JsStr(ToDecimal(point.line) \o <<":">> \o ToDecimal(point.column))
    ELSE JsStr(<<"1", ":", "1">>)

\* map.get(key), scope[key]
Get(m, key) == IF key \in DOMAIN m THEN m[key] ELSE JsUndefined

\* map.set(key, value), scope[key] = value
Set(m, key, value) ==
    [k \in (DOMAIN m) \cup {key} |-> IF k = key THEN value ELSE m[k]]

Hashes(depth) == [k \in 1..depth |-> "#"]

HeadingSnippet(depth, title) ==
    [Snippet("heading", Hashes(depth) \o <<" ">> \o title,
             <<Kid("text", depth + 1, depth + 1 + Len(title))>>)
     EXCEPT !.depth = depth]

\* the parser sets identifier to the label in lower case
DefinitionSnippet(label) ==
    [Snippet("definition", <<"[">> \o label \o <<"]", ":", " ", "u">>, <<>>)
     EXCEPT !.identifier = toLowerCase(label)]

FootnoteDefinitionSnippet(label) ==
    [Snippet("footnoteDefinition",
             <<"[", "^">> \o label \o <<"]", ":", " ", "t">>,
             <<Kid("paragraph", Len(label) + 5, Len(label) + 6)>>)
     EXCEPT !.identifier = toLowerCase(label)]

GeneratedFrom(snippet) == [snippet EXCEPT !.generated = TRUE]

Foo == <<"F", "o", "o">>
Bar == <<"B", "a", "r">>

HeadingPalette ==
    {HeadingSnippet(1, Foo), HeadingSnippet(2, Foo), HeadingSnippet(2, toLowerCase(Foo)),
     HeadingSnippet(2, Bar), GeneratedFrom(HeadingSnippet(2, Foo)),
     Snippet("paragraph", Foo, <<Kid("text", 0, 3)>>)}

\* a definition made by a plugin, which keeps the case of the label in the
\* identifier
UnnormalizedSnippet(label) ==
    [DefinitionSnippet(label) EXCEPT !.identifier = label]

DefinitionPalette ==
    {DefinitionSnippet(<<"a">>), DefinitionSnippet(<<"A">>),
     UnnormalizedSnippet(<<"A">>),
     DefinitionSnippet(<<"b">>), FootnoteDefinitionSnippet(<<"a">>),
     GeneratedFrom(DefinitionSnippet(<<"a">>)),
     Snippet("paragraph", <<"a">>, <<Kid("text", 0, 1)>>)}

SectionPalette ==
    {HeadingSnippet(1, Foo), HeadingSnippet(2, Foo), HeadingSnippet(2, Bar),
     HeadingSnippet(3, Foo), HeadingSnippet(3, Bar),
     HeadingSnippet(3, toLowerCase(Foo)),
     GeneratedFrom(HeadingSnippet(2, Foo)),
     GeneratedFrom(HeadingSnippet(3, Bar))}

\* remarkLintNoDuplicateHeadings, had `map` been declared outside of the
\* function
remarkLintNoDuplicateHeadingsSetupSharedMap ==
    /\ rule = "remarkLintNoDuplicateHeadings"
    /\ pc = "start"
    /\ todo' = Matching(tree, {"heading"}, 1)
    /\ pc' = "visit"
    /\ UNCHANGED <<others, rule, options, contents, tree, preferred, map, stack, last, messages>>

\* remarkLintNoDuplicateHeadings, up to the call of visit
remarkLintNoDuplicateHeadingsSetup ==
    /\ rule = "remarkLintNoDuplicateHeadings"
    /\ pc = "start"
    /\ map' = <<>>
    /\ todo' = Matching(tree, {"heading"}, 1)
    /\ pc' = "visit"
    /\ UNCHANGED <<others, rule, options, contents, tree, preferred, stack, last, messages>>

\* remarkLintNoDuplicateHeadingsVisit, had it kept the position recorded
\* first for a text
remarkLintNoDuplicateHeadingsVisitKeepsFirst ==
    /\ rule = "remarkLintNoDuplicateHeadings"
    /\ pc = "visit"
    /\ todo # <<>>
    /\ LET node == tree[Head(todo)]
       IN  IF ~generated(node) /\ HasPoint(node.start)
           THEN LET value == toUpperCase(toString(tree, Head(todo)))
                    duplicate == Get(map, value)
                IN  /\ messages' =
                         IF Truthy(duplicate)
                         THEN Append(messages,
                                  Message("Do not use headings with similar content",
                                          duplicate, Head(todo), node.start))
                         ELSE messages
                    /\ map' = IF Truthy(duplicate) THEN map
                              ELSE Set(map, value, stringifyPosition(node.start))
           ELSE UNCHANGED <<map, messages>>
    /\ todo' = Tail(todo)
    /\ UNCHANGED <<others, rule, options, contents, tree, pc, preferred, stack, last>>

\* the visitor of remarkLintNoDuplicateHeadings, had it taken the position
\* away from a heading it has looked at
remarkLintNoDuplicateHeadingsVisitDetaches ==
    /\ rule = "remarkLintNoDuplicateHeadings"
    /\ pc = "visit"
    /\ todo # <<>>
    /\ LET node == tree[Head(todo)]
       IN  IF ~generated(node) /\ HasPoint(node.start)
           THEN LET value == toUpperCase(toString(tree, Head(todo)))
                    duplicate == Get(map, value)
                IN  /\ messages' =
                         IF Truthy(duplicate)
                         THEN Append(messages,
                                  Message("Do not use headings with similar content",
                                          duplicate, Head(todo), node.start))
                         ELSE messages
                    /\ map' = Set(map, value, stringifyPosition(node.start))
                    /\ tree' = [tree EXCEPT ![Head(todo)].start = NoPoint,
                                            ![Head(todo)].end = NoPoint]
           ELSE UNCHANGED <<map, messages, tree>>
    /\ todo' = Tail(todo)
    /\ UNCHANGED <<others, rule, options, contents, pc, preferred, stack, last>>

\* remarkLintNoDuplicateHeadingsVisit, had it compared the texts as they
\* are written
remarkLintNoDuplicateHeadingsVisitCaseSensitive ==
    /\ rule = "remarkLintNoDuplicateHeadings"
    /\ pc = "visit"
    /\ todo # <<>>
    /\ LET node == tree[Head(todo)]
       IN  IF ~generated(node) /\ HasPoint(node.start)
           THEN LET value == toString(tree, Head(todo))
                    duplicate == Get(map, value)
                IN  /\ messages' =
                         IF Truthy(duplicate)
                         THEN Append(messages,
                                  Message("Do not use headings with similar content",
                                          duplicate, Head(todo), node.start))
                         ELSE messages
                    /\ map' = Set(map, value, stringifyPosition(node.start))
           ELSE UNCHANGED <<map, messages>>
    /\ todo' = Tail(todo)
    /\ UNCHANGED <<others, rule, options, contents, tree, pc, preferred, stack, last>>

\* one call of the visitor of remarkLintNoDuplicateHeadings
remarkLintNoDuplicateHeadingsVisit ==
    /\ rule = "remarkLintNoDuplicateHeadings"
    /\ pc = "visit"
    /\ todo # <<>>
    /\ LET node == tree[Head(todo)]
       IN  IF ~generated(node) /\ HasPoint(node.start)
           THEN LET value == toUpperCase(toString(tree, Head(todo)))
                    duplicate == Get(map, value)
                IN  /\ messages' =
                         IF Truthy(duplicate)
                         THEN Append(messages,
                                  Message("Do not use headings with similar content",
                                          duplicate, Head(todo), node.start))
                         ELSE messages
                    /\ map' = Set(map, value, stringifyPosition(node.start))
           ELSE UNCHANGED <<map, messages>>
    /\ todo' = Tail(todo)
    /\ UNCHANGED <<others, rule, options, contents, tree, pc, preferred, stack, last>>

\* remarkLintNoDuplicateDefinitions, up to the call of visit
remarkLintNoDuplicateDefinitionsSetup ==
    /\ rule = "remarkLintNoDuplicateDefinitions"
    /\ pc = "start"
    /\ map' = <<>>
    /\ todo' = [k \in 1..Len(tree) |-> k]
    /\ pc' = "visit"
    /\ UNCHANGED <<others, rule, options, contents, tree, preferred, stack, last, messages>>

\* remarkLintNoDuplicateDefinitionsVisit, had it dropped an identifier from
\* the map once it is reported
remarkLintNoDuplicateDefinitionsVisitForgets ==
    /\ rule = "remarkLintNoDuplicateDefinitions"
    /\ pc = "visit"
    /\ todo # <<>>
    /\ LET node == tree[Head(todo)]
       IN  IF /\ node.type \in {"definition", "footnoteDefinition"}
              /\ ~generated(node)
              /\ HasPoint(node.start)
           THEN LET identifier == node.identifier
                    duplicate == Get(map, identifier)
                IN  /\ messages' =
                         IF Truthy(duplicate)
                         THEN Append(messages,
                                  Message("Do not use definitions with the same identifier",
                                          duplicate, Head(todo), node.start))
                         ELSE messages
                    /\ map' = IF Truthy(duplicate)
                              THEN [k \in (DOMAIN map) \ {identifier} |-> map[k]]
                              ELSE Set(map, identifier, stringifyPosition(node.start))
           ELSE UNCHANGED <<map, messages>>
    /\ todo' = Tail(todo)
    /\ UNCHANGED <<others, rule, options, contents, tree, pc, preferred, stack, last>>

\* remarkLintNoDuplicateDefinitionsVisit, had it put a new message before
\* the messages there are
remarkLintNoDuplicateDefinitionsVisitPrepends ==
    /\ rule = "remarkLintNoDuplicateDefinitions"
    /\ pc = "visit"
    /\ todo # <<>>
    /\ LET node == tree[Head(todo)]
       IN  IF /\ node.type \in {"definition", "footnoteDefinition"}
              /\ ~generated(node)
              /\ HasPoint(node.start)
           THEN LET identifier == node.identifier
                    duplicate == Get(map, identifier)
                IN  /\ messages' =
                         IF Truthy(duplicate)
                         THEN <<Message("Do not use definitions with the same identifier",
                                        duplicate, Head(todo), node.start)>>
                              \o messages
                         ELSE messages
                    /\ map' = Set(map, identifier, stringifyPosition(node.start))
           ELSE UNCHANGED <<map, messages>>
    /\ todo' = Tail(todo)
    /\ UNCHANGED <<others, rule, options, contents, tree, pc, preferred, stack, last>>

\* remarkLintNoDuplicateDefinitionsVisit, had it kept the identifiers of
\* footnote definitions apart from those of definitions
remarkLintNoDuplicateDefinitionsVisitPerType ==
    /\ rule = "remarkLintNoDuplicateDefinitions"
    /\ pc = "visit"
    /\ todo # <<>>
    /\ LET node == tree[Head(todo)]
       IN  IF /\ node.type \in {"definition", "footnoteDefinition"}
              /\ ~generated(node)
              /\ HasPoint(node.start)
           THEN LET identifier == IF node.type = "footnoteDefinition"
                                  THEN <<"^">> \o node.identifier
                                  ELSE node.identifier
                    duplicate == Get(map, identifier)
                IN  /\ messages' =
                         IF Truthy(duplicate)
                         THEN Append(messages,
                                  Message("Do not use definitions with the same identifier",
                                          duplicate, Head(todo), node.start))
                         ELSE messages
                    /\ map' = Set(map, identifier, stringifyPosition(node.start))
           ELSE UNCHANGED <<map, messages>>
    /\ todo' = Tail(todo)
    /\ UNCHANGED <<others, rule, options, contents, tree, pc, preferred, stack, last>>

\* one call of the visitor of remarkLintNoDuplicateDefinitions
remarkLintNoDuplicateDefinitionsVisit ==
    /\ rule = "remarkLintNoDuplicateDefinitions"
    /\ pc = "visit"
    /\ todo # <<>>
    /\ LET node == tree[Head(todo)]
       IN  IF /\ node.type \in {"definition", "footnoteDefinition"}
              /\ ~generated(node)
              /\ HasPoint(node.start)
           THEN LET identifier == node.identifier
                    duplicate == Get(map, identifier)
                IN  /\ messages' =
                         IF Truthy(duplicate)
                         THEN Append(messages,
                                  Message("Do not use definitions with the same identifier",
                                          duplicate, Head(todo), node.start))
                         ELSE messages
                    /\ map' = Set(map, identifier, stringifyPosition(node.start))
           ELSE UNCHANGED <<map, messages>>
    /\ todo' = Tail(todo)
    /\ UNCHANGED <<others, rule, options, contents, tree, pc, preferred, stack, last>>

\* stack[index] = scope: an array grows, with holes, up to the index set
SetAt(array, index, scope) ==
    [k \in 1..(IF index + 1 > Len(array) THEN index + 1 ELSE Len(array)) |->
        IF k = index + 1 THEN scope
        ELSE IF k <= Len(array) THEN array[k] ELSE JsUndefined]

\* stack[index]
At(array, index) ==
    IF index + 1 <= Len(array) THEN array[index + 1] ELSE JsUndefined

\* array.slice(0, to)
SliceTo(array, to) == SubSeq(array, 1, IF to < Len(array) THEN to ELSE Len(array))

\* noDuplicateHeadingsInSection, up to the call of visit
noDuplicateHeadingsInSectionSetup ==
    /\ rule = "noDuplicateHeadingsInSection"
    /\ pc = "start"
    /\ stack' = <<>>
    /\ todo' = Matching(tree, {"heading"}, 1)
    /\ pc' = "visit"
    /\ UNCHANGED <<others, rule, options, contents, tree, preferred, map, last, messages>>

\* a scope: an object that maps a text to the (index of the) heading
\* recorded for it
Scope(entries) == [kind |-> "object", entries |-> entries]

\* noDuplicateHeadingsInSectionVisit, had it kept the scopes of all depths
noDuplicateHeadingsInSectionVisitKeepsScopes ==
    /\ rule = "noDuplicateHeadingsInSection"
    /\ pc = "visit"
    /\ todo # <<>>
    /\ LET node == tree[Head(todo)]
           depth == node.depth
           value == toUpperCase(toString(tree, Head(todo)))
           index == depth - 1
           scope == IF Truthy(At(stack, index)) THEN At(stack, index)
                    ELSE Scope(<<>>)
           duplicate == Get(scope.entries, value)
       IN  /\ messages' =
                IF ~generated(node) /\ duplicate # JsUndefined
                THEN Append(messages,
                         Message("Do not use headings with similar content per section",
                                 stringifyPosition(tree[duplicate.value].start),
                                 Head(todo), node.start))
                ELSE messages
           /\ stack' = SetAt(stack, index,
                             Scope(Set(scope.entries, value, JsNum(Head(todo)))))
    /\ todo' = Tail(todo)
    /\ UNCHANGED <<others, rule, options, contents, tree, pc, preferred, map, last>>

\* noDuplicateHeadingsInSectionVisit, had it started a new scope at every
\* heading
noDuplicateHeadingsInSectionVisitNewScope ==
    /\ rule = "noDuplicateHeadingsInSection"
    /\ pc = "visit"
    /\ todo # <<>>
    /\ LET node == tree[Head(todo)]
           depth == node.depth
           value == toUpperCase(toString(tree, Head(todo)))
           index == depth - 1
           scope == Scope(<<>>)
           duplicate == Get(scope.entries, value)
       IN  /\ messages' =
                IF ~generated(node) /\ duplicate # JsUndefined
                THEN Append(messages,
                         Message("Do not use headings with similar content per section",
                                 stringifyPosition(tree[duplicate.value].start),
                                 Head(todo), node.start))
                ELSE messages
           /\ stack' = SliceTo(SetAt(stack, index,
                                     Scope(Set(scope.entries, value,
                                               JsNum(Head(todo))))),
                               depth)
    /\ todo' = Tail(todo)
    /\ UNCHANGED <<others, rule, options, contents, tree, pc, preferred, map, last>>

\* one call of the visitor of noDuplicateHeadingsInSection
noDuplicateHeadingsInSectionVisit ==
    /\ rule = "noDuplicateHeadingsInSection"
    /\ pc = "visit"
    /\ todo # <<>>
    /\ LET node == tree[Head(todo)]
           depth == node.depth
           value == toUpperCase(toString(tree, Head(todo)))
           index == depth - 1
           scope == IF Truthy(At(stack, index)) THEN At(stack, index)
                    ELSE Scope(<<>>)
           duplicate == Get(scope.entries, value)
       IN  /\ messages' =
                IF ~generated(node) /\ duplicate # JsUndefined
                THEN Append(messages,
                         Message("Do not use headings with similar content per section",
                                 stringifyPosition(tree[duplicate.value].start),
                                 Head(todo), node.start))
                ELSE messages
           /\ stack' = SliceTo(SetAt(stack, index,
                                     Scope(Set(scope.entries, value,
                                               JsNum(Head(todo))))),
                               depth)
    /\ todo' = Tail(todo)
    /\ UNCHANGED <<others, rule, options, contents, tree, pc, preferred, map, last>>

DuplicateRules ==
    {"remarkLintNoDuplicateHeadings", "remarkLintNoDuplicateDefinitions",
     "noDuplicateHeadingsInSection"}

DuplicatePaletteOf(r) ==
    CASE r = "remarkLintNoDuplicateHeadings" -> HeadingPalette
      [] r = "remarkLintNoDuplicateDefinitions" -> DefinitionPalette
      [] r = "noDuplicateHeadingsInSection" -> SectionPalette

InitDuplicates ==
    /\ rule \in DuplicateRules
    /\ options = JsUndefined
    /\ \E items \in SeqsUpTo(DuplicatePaletteOf(rule), MaxHeadings) :
          /\ contents = SourceOf(items)
          /\ tree = TreeOf(items)
    /\ Fresh

NextDuplicates ==
    \/ remarkLintNoDuplicateHeadingsSetup
    \/ remarkLintNoDuplicateHeadingsVisit
    \/ remarkLintNoDuplicateDefinitionsSetup
    \/ remarkLintNoDuplicateDefinitionsVisit
    \/ noDuplicateHeadingsInSectionSetup
    \/ noDuplicateHeadingsInSectionVisit

SpecDuplicates == InitDuplicates /\ [][NextDuplicates]_vars

(***************************************************************************)
(* Properties of the rules that look for duplicates.                       *)
(***************************************************************************)
\* the key under which a rule records node i
KeyOf(i) ==
    IF rule = "remarkLintNoDuplicateDefinitions" THEN tree[i].identifier
    ELSE toUpperCase(toString(tree, i))

\* the types of node a rule records
KeyedTypes ==
    IF rule = "remarkLintNoDuplicateDefinitions"
    THEN {"definition", "footnoteDefinition"} ELSE {"heading"}

\* the positioned qualifying nodes, in document order
Keyed == SelectSeq(Matching(tree, KeyedTypes, 1), LAMBDA i : ~generated(tree[i]))

KeyedSet == {Keyed[k] : k \in 1..Len(Keyed)}

\* the positioned qualifying nodes before node i that have the key of node i
Earlier(i) == {j \in KeyedSet : j < i /\ KeyOf(j) = KeyOf(i)}

Least(S) == CHOOSE x \in S : \A y \in S : x <= y

Greatest(S) == CHOOSE x \in S : \A y \in S : y <= x

MapRules == {"remarkLintNoDuplicateHeadings", "remarkLintNoDuplicateDefinitions"}

\* C4 as claimed: every message of no-duplicate-headings and
\* no-duplicate-definitions cites the start of the first node, in document
\* order, that has the key of the reported node.
C4_CitesFirst ==
    rule \in MapRules =>
        \A k \in 1..Len(messages) :
            /\ Earlier(messages[k].node) # {}
            /\ messages[k].arg =
                   stringifyPosition(tree[Least(Earlier(messages[k].node))].start)

\* C4 as amended: every message of no-duplicate-headings and
\* no-duplicate-definitions cites the start of the nearest node before the
\* reported node that has its key, which is the first such node only when
\* the key occurs twice.
C4_CitesNearest ==
    rule \in MapRules =>
        \A k \in 1..Len(messages) :
            /\ Earlier(messages[k].node) # {}
            /\ messages[k].arg =
                   stringifyPosition(tree[Greatest(Earlier(messages[k].node))].start)

\* a key that occurs three times: the third occurrence cites the second
C4_Witness ==
    /\ rule \in MapRules
    /\ Returned
    /\ \E k \in 1..Len(messages) :
          /\ Cardinality(Earlier(messages[k].node)) = 2
          /\ messages[k].arg =
                 stringifyPosition(tree[Greatest(Earlier(messages[k].node))].start)
          /\ messages[k].arg #
                 stringifyPosition(tree[Least(Earlier(messages[k].node))].start)

\* C5: when no-duplicate-headings or no-duplicate-definitions has returned,
\* the reported nodes are, once each and in document order, the positioned
\* qualifying nodes whose key is the key of an earlier positioned qualifying
\* node; n such nodes with k distinct keys give n - k messages.
C5_OnePerRepeat ==
    (rule \in MapRules /\ Returned) =>
        /\ Reported = SelectSeq(Keyed, LAMBDA i : Earlier(i) # {})
        /\ Len(messages) = Len(Keyed) - Cardinality({KeyOf(i) : i \in KeyedSet})

\* four qualifying nodes with two keys, one of which occurs three times
C5_Witness ==
    /\ rule \in MapRules
    /\ Returned
    /\ Len(Keyed) = 4
    /\ Cardinality({KeyOf(i) : i \in KeyedSet}) = 2
    /\ \E i \in KeyedSet : Cardinality(Earlier(i)) = 2
    /\ Len(messages) = 2

\* C14: no-duplicate-definitions compares the identifier fields in lower
\* case: when it has returned, a positioned definition that follows a
\* positioned definition whose identifier is the same up to letter case has
\* a message.
C14_CaseInsensitiveIdentifiers ==
    (rule = "remarkLintNoDuplicateDefinitions" /\ Returned) =>
        \A i \in KeyedSet, j \in KeyedSet :
            (i < j /\ toLowerCase(tree[i].identifier)
                        = toLowerCase(tree[j].identifier))
                => \E k \in 1..Len(messages) : messages[k].node = j

\* the headings of the tree, in document order
Headings == Matching(tree, {"heading"}, 1)

HeadingSet == {Headings[k] : k \in 1..Len(Headings)}

\* an earlier heading of the same depth and text is in the section of h: no
\* heading of smaller depth lies between the two
RepeatsInSection(h) ==
    \E g \in HeadingSet :
        /\ g < h
        /\ tree[g].depth = tree[h].depth
        /\ KeyOf(g) = KeyOf(h)
        /\ \A x \in HeadingSet :
              (g < x /\ x < h) => tree[x].depth >= tree[h].depth

\* C6: when no-duplicate-headings-in-section has returned, the reported
\* headings are, once each, the positioned headings for which an earlier
\* heading of the same depth has the same upper-cased text with no heading
\* of smaller depth in between.
C6_SectionScoped ==
    (rule = "noDuplicateHeadingsInSection" /\ Returned) =>
        Reported = SelectSeq(Headings,
                             LAMBDA h : ~generated(tree[h]) /\ RepeatsInSection(h))

\* the same text at depth 3 under two different sections of depth 2, and at
\* depth 2 as well: no message
C6_Witness ==
    /\ rule = "noDuplicateHeadingsInSection"
    /\ Returned
    /\ Len(Headings) = 4
    /\ [k \in 1..4 |-> tree[Headings[k]].depth] = <<2, 3, 2, 3>>
    /\ KeyOf(Headings[2]) = KeyOf(Headings[4])
    /\ KeyOf(Headings[3]) = KeyOf(Headings[4])
    /\ \A k \in 1..4 : ~generated(tree[Headings[k]])
    /\ messages = <<>>

\* C18: no-duplicate-headings-in-section skips a heading without position:
\* such a heading has no message, is in no scope of the stack, and is never
\* the heading a message cites: every message cites the start of a
\* positioned earlier heading with the depth and the text of the reported
\* one.
C18_GeneratedSkipped ==
    rule = "noDuplicateHeadingsInSection" =>
        /\ \A k \in 1..Len(messages) : ~generated(tree[messages[k].node])
        /\ \A d \in 1..Len(stack) :
              Truthy(stack[d]) =>
                  \A key \in DOMAIN stack[d].entries :
                      ~generated(tree[stack[d].entries[key].value])
        /\ \A k \in 1..Len(messages) :
              \E g \in HeadingSet :
                  /\ g < messages[k].node
                  /\ ~generated(tree[g])
                  /\ tree[g].depth = tree[messages[k].node].depth
                  /\ KeyOf(g) = KeyOf(messages[k].node)
                  /\ messages[k].arg = stringifyPosition(tree[g].start)

(***************************************************************************)
(* Documents made of nested blocks.  A tree is grown one node at a time   *)
(* in document order: the new node becomes the last child of a node on    *)
(* the path from the root to the node added last.  A first child starts   *)
(* on the line of its parent; a later child starts on the line after the  *)
(* end of what is there (gap 1) or leaves one line blank (gap 2).  Every  *)
(* leaf takes one line and a parent ends where its last descendant ends.  *)
(* The rules that are run on these trees read only the line of a point:   *)
(* columns and offsets are left at those of the start of the file.        *)
(***************************************************************************)
Kind(type, value) == [type |-> type, value |-> value, generated |-> FALSE]

GeneratedKind(type) == [type |-> type, value |-> <<>>, generated |-> TRUE]

LinePoint(line) == Point(line, 1, 0)

RECURSIVE PathToRoot(_, _)
PathToRoot(t, i) == IF i = 0 THEN {} ELSE {i} \cup PathToRoot(t, t[i].parent)

\* the last line on which a node of the tree starts
LastLine(t) ==
    LET lines == {t[k].start.line : k \in {j \in 1..Len(t) : HasPoint(t[j].start)}}
    IN  Greatest(lines)

\* the nodes of t that can take one more child: those on the path from the
\* root to the last node; allowed maps the type of a parent to the kinds of
\* child it takes
Parents(t, allowed) ==
    {q \in PathToRoot(t, Len(t)) :
        t[q].type \in DOMAIN allowed /\ HasPoint(t[q].start)}

\* the lines on which the next child of p can start
LinesFor(t, p) ==
    IF Children(t, p) = <<>> THEN {LastLine(t)}
    ELSE {LastLine(t) + 1, LastLine(t) + 2}

\* the trees that have one node more than t
Grow(t, allowed) ==
    UNION {{Append(t, [Node(kind.type, p,
                            IF kind.generated THEN NoPoint ELSE LinePoint(line),
                            NoPoint)
                       EXCEPT !.value = kind.value]) :
               kind \in allowed[t[p].type], line \in LinesFor(t, p)} :
           p \in Parents(t, allowed)}

RECURSIVE IsUnder(_, _, _)
IsUnder(t, j, i) ==
    \/ j = i
    \/ j > i /\ IsUnder(t, t[j].parent, i)

\* the line on which node i ends: the last line of a node at or below it
EndLine(t, i) ==
    Greatest({t[i].start.line}
             \cup {t[j].start.line :
                     j \in {k \in 1..Len(t) : IsUnder(t, k, i) /\ HasPoint(t[k].start)}})

\* the tree with the end of every positioned node filled in
WithEnds(t) ==
    [i \in 1..Len(t) |->
        IF HasPoint(t[i].start)
        THEN [t[i] EXCEPT !.end = LinePoint(EndLine(t, i))]
        ELSE t[i]]

\* the trees of at most n nodes below the root, without their ends
RECURSIVE Grown(_, _)
Grown(n, allowed) ==
    IF n = 0 THEN {<<Node("root", 0, LinePoint(1), NoPoint)>>}
    ELSE LET smaller == Grown(n - 1, allowed)
         IN  smaller \cup UNION {Grow(u, allowed) : u \in smaller}

Trees(n, allowed) == {WithEnds(t) : t \in Grown(n, allowed)}

(***************************************************************************)
(* no-missing-blank-lines.                                                 *)
(***************************************************************************)
types == {"paragraph", "heading", "thematicBreak", "blockquote", "list",
          "table", "html", "code", "yaml"}

\* an options object
Options(exceptTightLists) ==
    [kind |-> "object", exceptTightLists |-> exceptTightLists]

BlankLinesOptions ==
    {JsUndefined, Options(JsUndefined), Options(JsBool(FALSE)),
     Options(JsBool(TRUE))}

\* options ? options.exceptTightLists : false
ExceptTightLists(o) ==
    IF Truthy(o) THEN o.exceptTightLists ELSE JsBool(FALSE)

\* what the blocks of a document of no-missing-blank-lines contain
BlankLinesBlocks ==
    [root |-> {Kind("paragraph", <<>>), Kind("math", <<>>), Kind("list", <<>>),
               GeneratedKind("paragraph")},
     list |-> {Kind("listItem", <<>>)},
     listItem |-> {Kind("paragraph", <<>>), Kind("math", <<>>)}]

\* remarkLintNoMissingBlankLines, up to the call of visit
remarkLintNoMissingBlankLinesSetup ==
    /\ rule = "remarkLintNoMissingBlankLines"
    /\ pc = "start"
    /\ todo' = [k \in 1..Len(tree) |-> k]
    /\ pc' = "visit"
    /\ UNCHANGED <<others, rule, options, contents, tree, preferred, map, stack, last,
                   messages>>

\* remarkLintNoMissingBlankLinesVisit, had it asked for the next node to
\* start anywhere after the line on which this one ends
remarkLintNoMissingBlankLinesVisitAnyGap ==
    /\ rule = "remarkLintNoMissingBlankLines"
    /\ pc = "visit"
    /\ todo # <<>>
    /\ LET node == tree[Head(todo)]
           parent == node.parent
           index == IndexInParent(tree, Head(todo))
           end == node.end
           exceptTightLists == ExceptTightLists(options)
       IN  IF /\ parent # 0
              /\ HasPoint(end)
              /\ (~Truthy(exceptTightLists) \/ tree[parent].type # "listItem")
           THEN LET siblings == Children(tree, parent)
                    next == IF index + 2 <= Len(siblings)
                            THEN siblings[index + 2] ELSE 0
                IN  IF /\ next # 0
                       /\ HasPoint(tree[next].start)
                       /\ tree[next].type \in types
                       /\ tree[next].start.line > end.line
                    THEN messages' = Append(messages,
                             Message("Missing blank line before block node",
                                     JsUndefined, next, tree[next].start))
                    ELSE UNCHANGED messages
           ELSE UNCHANGED messages
    /\ todo' = Tail(todo)
    /\ UNCHANGED <<others, rule, options, contents, tree, pc, preferred, map, stack, last>>

\* remarkLintNoMissingBlankLinesVisit, had it asked of the node too that it
\* be of one of the types
remarkLintNoMissingBlankLinesVisitBothTypes ==
    /\ rule = "remarkLintNoMissingBlankLines"
    /\ pc = "visit"
    /\ todo # <<>>
    /\ LET node == tree[Head(todo)]
           parent == node.parent
           index == IndexInParent(tree, Head(todo))
           end == node.end
           exceptTightLists == ExceptTightLists(options)
       IN  IF /\ parent # 0
              /\ HasPoint(end)
              /\ node.type \in types
              /\ (~Truthy(exceptTightLists) \/ tree[parent].type # "listItem")
           THEN LET siblings == Children(tree, parent)
                    next == IF index + 2 <= Len(siblings)
                            THEN siblings[index + 2] ELSE 0
                IN  IF /\ next # 0
                       /\ HasPoint(tree[next].start)
                       /\ tree[next].type \in types
                       /\ tree[next].start.line = end.line + 1
                    THEN messages' = Append(messages,
                             Message("Missing blank line before block node",
                                     JsUndefined, next, tree[next].start))
                    ELSE UNCHANGED messages
           ELSE UNCHANGED messages
    /\ todo' = Tail(todo)
    /\ UNCHANGED <<others, rule, options, contents, tree, pc, preferred, map, stack, last>>

\* remarkLintNoMissingBlankLinesVisit, had it looked at the type of the node
\* instead of the type of its parent
remarkLintNoMissingBlankLinesVisitOwnType ==
    /\ rule = "remarkLintNoMissingBlankLines"
    /\ pc = "visit"
    /\ todo # <<>>
    /\ LET node == tree[Head(todo)]
           parent == node.parent
           index == IndexInParent(tree, Head(todo))
           end == node.end
           exceptTightLists == ExceptTightLists(options)
       IN  IF /\ parent # 0
              /\ HasPoint(end)
              /\ (~Truthy(exceptTightLists) \/ node.type # "listItem")
           THEN LET siblings == Children(tree, parent)
                    next == IF index + 2 <= Len(siblings)
                            THEN siblings[index + 2] ELSE 0
                IN  IF /\ next # 0
                       /\ HasPoint(tree[next].start)
                       /\ tree[next].type \in types
                       /\ tree[next].start.line = end.line + 1
                    THEN messages' = Append(messages,
                             Message("Missing blank line before block node",
                                     JsUndefined, next, tree[next].start))
                    ELSE UNCHANGED messages
           ELSE UNCHANGED messages
    /\ todo' = Tail(todo)
    /\ UNCHANGED <<others, rule, options, contents, tree, pc, preferred, map, stack, last>>

\* one call of the visitor of remarkLintNoMissingBlankLines
remarkLintNoMissingBlankLinesVisit ==
    /\ rule = "remarkLintNoMissingBlankLines"
    /\ pc = "visit"
    /\ todo # <<>>
    /\ LET node == tree[Head(todo)]
           parent == node.parent
           index == IndexInParent(tree, Head(todo))
           end == node.end
           exceptTightLists == ExceptTightLists(options)
       IN  IF /\ parent # 0
              /\ HasPoint(end)
              /\ (~Truthy(exceptTightLists) \/ tree[parent].type # "listItem")
           THEN LET siblings == Children(tree, parent)
                    next == IF index + 2 <= Len(siblings)
                            THEN siblings[index + 2] ELSE 0
                IN  IF /\ next # 0
                       /\ HasPoint(tree[next].start)
                       /\ tree[next].type \in types
                       /\ tree[next].start.line = end.line + 1
                    THEN messages' = Append(messages,
                             Message("Missing blank line before block node",
                                     JsUndefined, next, tree[next].start))
                    ELSE UNCHANGED messages
           ELSE UNCHANGED messages
    /\ todo' = Tail(todo)
    /\ UNCHANGED <<others, rule, options, contents, tree, pc, preferred, map, stack, last>>

InitBlankLines ==
    /\ rule = "remarkLintNoMissingBlankLines"
    /\ options \in BlankLinesOptions
    /\ tree \in Trees(MaxBlocks, BlankLinesBlocks)
    /\ contents = <<>>
    /\ Fresh

NextBlankLines ==
    \/ remarkLintNoMissingBlankLinesSetup
    \/ remarkLintNoMissingBlankLinesVisit

SpecBlankLines == InitBlankLines /\ [][NextBlankLines]_vars

(***************************************************************************)
(* Properties of no-missing-blank-lines.                                   *)
(***************************************************************************)
\* the sibling before node b, or 0
Previous(b) ==
    LET before == {k \in 1..(b - 1) : tree[k].parent = tree[b].parent}
    IN  IF before = {} THEN 0 ELSE Greatest(before)

\* both nodes of the pair that ends in b have a position
Positioned(b) ==
    /\ Previous(b) # 0
    /\ HasPoint(tree[Previous(b)].end)
    /\ HasPoint(tree[b].start)

\* b starts on the line after the line on which its previous sibling ends
Adjacent(b) ==
    Positioned(b) /\ tree[b].start.line = tree[Previous(b)].end.line + 1

\* b starts two or more lines after the line on which its previous sibling
\* ends
Apart(b) ==
    Positioned(b) /\ tree[b].start.line >= tree[Previous(b)].end.line + 2

\* the children of list items are exempt when exceptTightLists is set
Exempt(b) ==
    /\ options.kind = "object"
    /\ options.exceptTightLists = JsBool(TRUE)
    /\ tree[tree[b].parent].type = "listItem"

\* the number of messages on node b
Count(b) == Cardinality({k \in 1..Len(messages) : messages[k].node = b})

\* C8: when no-missing-blank-lines has returned, a block-type node that has
\* a previous sibling (and is not exempt as a child of a tight list item)
\* has exactly one message if it starts on the line after the line on which
\* that sibling ends, and none if it starts two or more lines later.
C8_OneLineGap ==
    (rule = "remarkLintNoMissingBlankLines" /\ Returned) =>
        \A b \in 2..Len(tree) :
            (Positioned(b) /\ tree[b].type \in types /\ ~Exempt(b)) =>
                /\ Adjacent(b) => Count(b) = 1
                /\ Apart(b) => Count(b) = 0

\* a block reported for the missing blank line and a block that is not,
\* after a blank line
C8_Witness ==
    /\ rule = "remarkLintNoMissingBlankLines"
    /\ Returned
    /\ \E b, c \in 2..Len(tree) :
          /\ tree[b].type \in types /\ Adjacent(b) /\ Count(b) = 1
          /\ tree[c].type \in types /\ Apart(c) /\ Count(c) = 0

\* C9: when no-missing-blank-lines has returned, the messages are, one each,
\* on the block-type nodes that start on the line after their previous
\* sibling ends, except that with exceptTightLists set to true the children
\* of list items have none; whether a node under another parent is
\* reported does not depend on the option.
C9_ExceptTightLists ==
    (rule = "remarkLintNoMissingBlankLines" /\ Returned) =>
        \A b \in 1..Len(tree) :
            Count(b) = IF /\ b > 1
                          /\ Adjacent(b)
                          /\ tree[b].type \in types
                          /\ ~Exempt(b)
                       THEN 1 ELSE 0

\* exceptTightLists is set and a child of a list item that starts on the
\* line after its previous sibling has no message
C9_Witness ==
    /\ rule = "remarkLintNoMissingBlankLines"
    /\ Returned
    /\ options = Options(JsBool(TRUE))
    /\ \E b \in 2..Len(tree) :
          /\ tree[tree[b].parent].type = "listItem"
          /\ tree[b].type \in types
          /\ Adjacent(b)
          /\ Count(b) = 0

\* the types of the flow nodes: those of markdown and those of footnotes,
\* math, directives and MDX
FlowTypes ==
    types \cup {"definition", "footnoteDefinition", "math", "leafDirective",
                "containerDirective", "mdxJsxFlowElement", "mdxFlowExpression",
                "mdxjsEsm"}

\* C10: when no-missing-blank-lines has returned, every flow node that
\* starts on the line after its previous sibling ends is reported, also when
\* it is a footnote definition, a math block, a directive or an MDX node.
C10_AllFlowNodes ==
    (rule = "remarkLintNoMissingBlankLines" /\ Returned) =>
        \A b \in 2..Len(tree) :
            (Adjacent(b) /\ tree[b].type \in FlowTypes /\ ~Exempt(b)) =>
                Count(b) >= 1

\* C19 as claimed: every message of no-missing-blank-lines is on a node of
\* a block type whose previous sibling is of a block type too; after a
\* sibling of another type a node is not reported.
C19_BothBlockTypes ==
    rule = "remarkLintNoMissingBlankLines" =>
        \A k \in 1..Len(messages) :
            /\ tree[messages[k].node].type \in types
            /\ Previous(messages[k].node) # 0
            /\ tree[Previous(messages[k].node)].type \in types

\* C19 as amended: every message of no-missing-blank-lines is on a node of
\* a block type that starts on the line after its previous sibling ends;
\* the type of that sibling is not looked at: when the rule has returned, a
\* block-type node that starts on the line after a sibling of another type
\* has its message as well.
C19_LaterBlockType ==
    rule = "remarkLintNoMissingBlankLines" =>
        /\ \A k \in 1..Len(messages) :
              /\ tree[messages[k].node].type \in types
              /\ Adjacent(messages[k].node)
        /\ Returned =>
              \A b \in 2..Len(tree) :
                  (/\ Adjacent(b)
                   /\ tree[b].type \in types
                   /\ tree[Previous(b)].type \notin types
                   /\ ~Exempt(b)) => Count(b) = 1

\* a paragraph on the line after a math block, reported
C19_Witness ==
    /\ rule = "remarkLintNoMissingBlankLines"
    /\ Returned
    /\ \E b \in 2..Len(tree) :
          /\ tree[b].type = "paragraph"
          /\ Adjacent(b)
          /\ tree[Previous(b)].type = "math"
          /\ Count(b) = 1

(***************************************************************************)
(* final-definition.                                                       *)
(***************************************************************************)
\* the nodes in the order of visit(tree, visitor, true): a node before its
\* children, the children from last to first
RECURSIVE ReverseOrder(_, _)
RECURSIVE ReverseOrderAll(_, _)
ReverseOrder(t, i) == <<i>> \o ReverseOrderAll(t, Children(t, i))

ReverseOrderAll(t, kids) ==
    IF kids = <<>> THEN <<>>
    ELSE ReverseOrder(t, kids[Len(kids)])
         \o ReverseOrderAll(t, SubSeq(kids, 1, Len(kids) - 1))

\* the text without the whitespace it starts with
RECURSIVE TrimStart(_)
TrimStart(text) ==
    IF text # <<>> /\ IsWhitespace(Head(text)) THEN TrimStart(Tail(text))
    ELSE text

\* /^\s*<!--/.test(value)
IsComment(value) ==
    LET rest == TrimStart(value)
    IN  Len(rest) >= 4 /\ SubSeq(rest, 1, 4) = <<"<", "!", "-", "-">>

Comment == <<"<", "!", "-", "-", "c", "-", "-", ">">>

\* what the blocks of a document of final-definition contain
FinalBlocks ==
    [root |-> {Kind("paragraph", <<>>), Kind("definition", <<>>),
               Kind("blockquote", <<>>), Kind("html", Comment),
               Kind("html", <<" ">> \o Comment), Kind("html", <<"<", "b", ">">>),
               GeneratedKind("definition")},
     blockquote |-> {Kind("paragraph", <<>>), Kind("definition", <<>>)}]

\* remarkLintFinalDefinition, up to the call of visit
remarkLintFinalDefinitionSetup ==
    /\ rule = "remarkLintFinalDefinition"
    /\ pc = "start"
    /\ last' = 0
    /\ todo' = ReverseOrder(tree, 1)
    /\ pc' = "visit"
    /\ UNCHANGED <<others, rule, options, contents, tree, preferred, map, stack, messages>>

\* the visitor of remarkLintFinalDefinition, had it remembered the line of
\* every node that is not a definition
remarkLintFinalDefinitionVisitUpdates ==
    /\ rule = "remarkLintFinalDefinition"
    /\ pc = "visit"
    /\ todo # <<>>
    /\ LET node == tree[Head(todo)]
           start == node.start
       IN  IF \/ ~HasPoint(start)
              \/ node.type = "root"
              \/ (node.type = "html" /\ IsComment(node.value))
           THEN UNCHANGED <<last, messages>>
           ELSE LET line == start.line
                IN  IF node.type = "definition"
                    THEN /\ messages' =
                              IF last # 0 /\ last > line
                              THEN Append(messages,
                                       Message("Move definitions to the end of the file",
                                               JsNum(last), Head(todo), start))
                              ELSE messages
                         /\ UNCHANGED last
                    ELSE /\ last' = line
                         /\ UNCHANGED messages
    /\ todo' = Tail(todo)
    /\ UNCHANGED <<others, rule, options, contents, tree, pc, preferred, map, stack>>

\* the visitor of remarkLintFinalDefinition, had it made no exception of HTML
\* comments
remarkLintFinalDefinitionVisitCountsComments ==
    /\ rule = "remarkLintFinalDefinition"
    /\ pc = "visit"
    /\ todo # <<>>
    /\ LET node == tree[Head(todo)]
           start == node.start
       IN  IF \/ ~HasPoint(start)
              \/ node.type = "root"
           THEN UNCHANGED <<last, messages>>
           ELSE LET line == start.line
                IN  IF node.type = "definition"
                    THEN /\ messages' =
                              IF last # 0 /\ last > line
                              THEN Append(messages,
                                       Message("Move definitions to the end of the file",
                                               JsNum(last), Head(todo), start))
                              ELSE messages
                         /\ UNCHANGED last
                    ELSE /\ last' = IF last = 0 THEN line ELSE last
                         /\ UNCHANGED messages
    /\ todo' = Tail(todo)
    /\ UNCHANGED <<others, rule, options, contents, tree, pc, preferred, map, stack>>

\* the visitor of remarkLintFinalDefinition, had it put a new message
\* before the messages there are
remarkLintFinalDefinitionVisitPrepends ==
    /\ rule = "remarkLintFinalDefinition"
    /\ pc = "visit"
    /\ todo # <<>>
    /\ LET node == tree[Head(todo)]
           start == node.start
       IN  IF \/ ~HasPoint(start)
              \/ node.type = "root"
              \/ (node.type = "html" /\ IsComment(node.value))
           THEN UNCHANGED <<last, messages>>
           ELSE LET line == start.line
                IN  IF node.type = "definition"
                    THEN /\ messages' =
                              IF last # 0 /\ last > line
                              THEN <<Message("Move definitions to the end of the file",
                                             JsNum(last), Head(todo), start)>>
                                   \o messages
                              ELSE messages
                         /\ UNCHANGED last
                    ELSE /\ last' = IF last = 0 THEN line ELSE last
                         /\ UNCHANGED messages
    /\ todo' = Tail(todo)
    /\ UNCHANGED <<others, rule, options, contents, tree, pc, preferred, map, stack>>

\* one call of the visitor of remarkLintFinalDefinition
remarkLintFinalDefinitionVisit ==
    /\ rule = "remarkLintFinalDefinition"
    /\ pc = "visit"
    /\ todo # <<>>
    /\ LET node == tree[Head(todo)]
           start == node.start
       IN  IF \/ ~HasPoint(start)
              \/ node.type = "root"
              \/ (node.type = "html" /\ IsComment(node.value))
           THEN UNCHANGED <<last, messages>>
           ELSE LET line == start.line
                IN  IF node.type = "definition"
                    THEN /\ messages' =
                              IF last # 0 /\ last > line
                              THEN Append(messages,
                                       Message("Move definitions to the end of the file",
                                               JsNum(last), Head(todo), start))
                              ELSE messages
                         /\ UNCHANGED last
                    ELSE /\ last' = IF last = 0 THEN line ELSE last
                         /\ UNCHANGED messages
    /\ todo' = Tail(todo)
    /\ UNCHANGED <<others, rule, options, contents, tree, pc, preferred, map, stack>>

InitFinalDefinition ==
    /\ rule = "remarkLintFinalDefinition"
    /\ options = JsUndefined
    /\ tree \in Trees(MaxFinal, FinalBlocks)
    /\ contents = <<>>
    /\ Fresh

NextFinalDefinition ==
    \/ remarkLintFinalDefinitionSetup
    \/ remarkLintFinalDefinitionVisit

SpecFinalDefinition == InitFinalDefinition /\ [][NextFinalDefinition]_vars

\* node i is content: it has a position and is neither the root, nor a
\* definition, nor an HTML comment
IsContent(i) ==
    /\ HasPoint(tree[i].start)
    /\ tree[i].type \notin {"root", "definition"}
    /\ ~(tree[i].type = "html" /\ IsComment(tree[i].value))

\* C7: when final-definition has returned, a positioned definition has a
\* message if and only if some positioned node that is neither a definition
\* nor an HTML comment starts on a later line, also when the definition is
\* inside a block quote.
C7_DefinitionsLast ==
    (rule = "remarkLintFinalDefinition" /\ Returned) =>
        \A i \in 1..Len(tree) :
            (tree[i].type = "definition" /\ HasPoint(tree[i].start)) =>
                (Count(i) >= 1 <=>
                    \E c \in 1..Len(tree) :
                        IsContent(c) /\ tree[c].start.line > tree[i].start.line)

\* the places, in the order of the traversal, of the nodes that are content
ContentPlaces ==
    {k \in 1..Len(ReverseOrder(tree, 1)) : IsContent(ReverseOrder(tree, 1)[k])}

\* the place of node i in the order of the traversal
PlaceOf(i) ==
    CHOOSE k \in 1..Len(ReverseOrder(tree, 1)) : ReverseOrder(tree, 1)[k] = i

\* the number of calls of the visitor so far
Visits == IF pc = "visit" THEN Len(tree) - Len(todo) ELSE 0

\* the line L: the start line of the first content node of the traversal,
\* 0 when the tree has none
FirstContentLine ==
    IF ContentPlaces = {} THEN 0
    ELSE tree[ReverseOrder(tree, 1)[Least(ContentPlaces)]].start.line

\* C20: `last` is 0 until the first content node of the reverse traversal
\* has been visited and the start line L of that node from then on; every
\* message cites L; and a definition that has been visited has a message
\* (one) exactly when it has a position, comes after that first content
\* node in the traversal and starts on a line smaller than L.
C20_OneRememberedLine ==
    rule = "remarkLintFinalDefinition" =>
        /\ last = IF ContentPlaces # {} /\ Least(ContentPlaces) <= Visits
                  THEN FirstContentLine ELSE 0
        /\ \A k \in 1..Len(messages) :
              messages[k].arg = JsNum(FirstContentLine)
        /\ \A d \in 1..Len(tree) :
              Count(d) =
                IF /\ tree[d].type = "definition"
                   /\ PlaceOf(d) <= Visits
                   /\ HasPoint(tree[d].start)
                   /\ ContentPlaces # {}
                   /\ Least(ContentPlaces) < PlaceOf(d)
                   /\ tree[d].start.line < FirstContentLine
                THEN 1 ELSE 0

\* a definition reported with the line of the last paragraph, in a tree in
\* which another paragraph, on another line, was visited after that one
C20_Witness ==
    /\ rule = "remarkLintFinalDefinition"
    /\ Returned
    /\ Len(messages) = 1
    /\ messages[1].arg = JsNum(FirstContentLine)
    /\ \E c \in 1..Len(tree) :
          /\ IsContent(c)
          /\ tree[c].start.line # FirstContentLine
          /\ tree[c].start.line > tree[messages[1].node].start.line

(***************************************************************************)
(* no-heading-punctuation.                                                 *)
(***************************************************************************)
\* the characters of the model in the order of their code units
CodeOrder ==
    <<" ", "!", "#", "*", ",", "-", ".", ":", ";", "?">> \o UpperCase
    \o <<"\\", "^", "_">> \o LowerCase

Code(c) == CHOOSE i \in 1..Len(CodeOrder) : CodeOrder[i] = c

\* whether the character c is matched by the atoms and ranges `s` of a
\* character class: \x stands for x, x-y for the characters from x to y
RECURSIVE InClass(_, _)
InClass(s, c) ==
    IF s = <<>> THEN FALSE
    ELSE LET esc == s[1] = "\\" /\ Len(s) >= 2
             first == IF esc THEN s[2] ELSE s[1]
             rest == SubSeq(s, IF esc THEN 3 ELSE 2, Len(s))
         IN  IF Len(rest) >= 2 /\ rest[1] = "-"
             THEN LET esc2 == rest[2] = "\\" /\ Len(rest) >= 3
                      second == IF esc2 THEN rest[3] ELSE rest[2]
                      rest2 == SubSeq(rest, IF esc2 THEN 4 ELSE 3, Len(rest))
                  IN  \/ Code(first) <= Code(c) /\ Code(c) <= Code(second)
                      \/ InClass(rest2, c)
             ELSE c = first \/ InClass(rest, c)

\* new RegExp('[' + x + ']').test(c) for a string c of at most one
\* character: a class never matches the empty string; a leading ^ negates
ClassTest(x, c) ==
    /\ c # ""
    /\ IF x # <<>> /\ x[1] = "^" THEN ~InClass(Tail(x), c) ELSE InClass(x, c)

\* the default of the option: the JavaScript literal '!,\\.:;?'
DefaultPunctuation == <<"!", ",", "\\", ".", ":", ";", "?">>

\* the expression the rule builds from its option
expression(o) == IF Truthy(o) THEN o.value ELSE DefaultPunctuation

Hello == <<"H", "e", "l", "l", "o">>

\* headings of depth 1: plain, with a closing sequence of hashes (which is
\* not part of the text), without text, and without position
TitleSnippet(title) == HeadingSnippet(1, title)

ClosedSnippet(title) ==
    [Snippet("heading", <<"#", " ">> \o title \o <<" ", "#">>,
             <<Kid("text", 2, 2 + Len(title))>>)
     EXCEPT !.depth = 1]

EmptySnippet == [Snippet("heading", <<"#">>, <<>>) EXCEPT !.depth = 1]

PunctuationPalette ==
    {TitleSnippet(Hello), TitleSnippet(Hello \o <<":">>),
     TitleSnippet(Hello \o <<".">>), TitleSnippet(Hello \o <<"?">>),
     ClosedSnippet(Hello \o <<":">>), ClosedSnippet(Hello), EmptySnippet,
     GeneratedFrom(TitleSnippet(Hello \o <<":">>)),
     Snippet("paragraph", Hello \o <<":">>, <<Kid("text", 0, 6)>>)}

PunctuationOptions ==
    {JsUndefined, JsNull, JsStr(<<>>), JsStr(<<",", ";", ":", "!", "?">>),
     JsStr(<<"a", "-", "z">>), JsStr(<<"^", ":">>), JsStr(<<"\\", "?">>)}

\* remarkLintNoHeadingPunctuation, up to the call of visit
remarkLintNoHeadingPunctuationSetup ==
    /\ rule = "remarkLintNoHeadingPunctuation"
    /\ pc = "start"
    /\ preferred' = JsStr(expression(options))
    /\ todo' = Matching(tree, {"heading"}, 1)
    /\ pc' = "visit"
    /\ UNCHANGED <<others, rule, options, contents, tree, map, stack, last, messages>>

\* the visitor, were it to look at the last character of the source of the
\* heading instead of that of its text
remarkLintNoHeadingPunctuationVisitRawSlice ==
    /\ rule = "remarkLintNoHeadingPunctuation"
    /\ pc = "visit"
    /\ todo # <<>>
    /\ LET node == Head(todo)
           value == IF generated(tree[node]) THEN <<>>
                    ELSE Slice(contents, tree[node].start.offset,
                               tree[node].end.offset)
           tail == CharAt(value, Len(value) - 1)
       IN  messages' =
             IF ~generated(tree[node]) /\ ClassTest(preferred.value, tail)
             THEN Append(messages,
                         Message("Don't add a trailing", tail, node,
                                 tree[node].start))
             ELSE messages
    /\ todo' = Tail(todo)
    /\ UNCHANGED <<others, rule, options, contents, tree, pc, preferred, map, stack, last>>

\* one call of the visitor of remarkLintNoHeadingPunctuation
remarkLintNoHeadingPunctuationVisit ==
    /\ rule = "remarkLintNoHeadingPunctuation"
    /\ pc = "visit"
    /\ todo # <<>>
    /\ LET node == Head(todo)
           value == toString(tree, node)
           tail == CharAt(value, Len(value) - 1)
       IN  messages' =
             IF ~generated(tree[node]) /\ ClassTest(preferred.value, tail)
             THEN Append(messages,
                         Message("Don't add a trailing", tail, node,
                                 tree[node].start))
             ELSE messages
    /\ todo' = Tail(todo)
    /\ UNCHANGED <<others, rule, options, contents, tree, pc, preferred, map, stack, last>>

InitPunctuation ==
    /\ rule = "remarkLintNoHeadingPunctuation"
    /\ options \in PunctuationOptions
    /\ \E items \in SeqsUpTo(PunctuationPalette, MaxTitles) :
          /\ contents = SourceOf(items)
          /\ tree = TreeOf(items)
    /\ Fresh

NextPunctuation ==
    \/ remarkLintNoHeadingPunctuationSetup
    \/ remarkLintNoHeadingPunctuationVisit

SpecPunctuation == InitPunctuation /\ [][NextPunctuation]_vars

(***************************************************************************)
(* Properties of no-heading-punctuation.                                   *)
(***************************************************************************)
\* the characters of the configured class; without configuration !,.:;?
ClassOf(o) ==
    IF Truthy(o)
    THEN {CodeOrder[k] : k \in {j \in 1..Len(CodeOrder) :
                                   ClassTest(o.value, CodeOrder[j])}}
    ELSE {"!", ",", ".", ":", ";", "?"}

\* the last character of the flattened text of heading h is in the class
EndsInPunctuation(h) ==
    LET text == toString(tree, h)
    IN  text # <<>> /\ text[Len(text)] \in ClassOf(options)

\* C11: when no-heading-punctuation has returned, a heading has a message
\* if and only if it is positioned and the last character of its flattened
\* text is in the configured class (by default !,.:;?); it then has one
\* message, which cites that character; nothing else has a message.
C11_TrailingPunctuation ==
    (rule = "remarkLintNoHeadingPunctuation" /\ Returned) =>
        /\ \A h \in 1..Len(tree) :
              Count(h) =
                IF /\ tree[h].type = "heading"
                   /\ ~generated(tree[h])
                   /\ EndsInPunctuation(h)
                THEN 1 ELSE 0
        /\ \A k \in 1..Len(messages) :
              LET text == toString(tree, messages[k].node)
              IN  /\ ~messages[k].fatal
                  /\ messages[k].arg = text[Len(text)]
                  /\ messages[k].place = tree[messages[k].node].start

\* a default run that flags a heading closed by hashes, citing the colon of
\* its text, and leaves alone a heading without text and one ending in a
\* letter
C11_Witness ==
    /\ rule = "remarkLintNoHeadingPunctuation" /\ Returned
    /\ options = JsUndefined
    /\ \E h \in 1..Len(tree) :
          /\ tree[h].type = "heading" /\ ~generated(tree[h])
          /\ contents[tree[h].end.offset] = "#"
          /\ \E k \in 1..Len(messages) :
                messages[k].node = h /\ messages[k].arg = ":"
    /\ \E h \in 1..Len(tree) :
          /\ tree[h].type = "heading" /\ ~generated(tree[h])
          /\ toString(tree, h) = <<>> /\ Count(h) = 0
    /\ \E h \in 1..Len(tree) :
          /\ tree[h].type = "heading" /\ ~generated(tree[h])
          /\ toString(tree, h) = Hello /\ Count(h) = 0

(***************************************************************************)
(* final-newline.  The rule reads the text of the file and never the tree; *)
(* it makes no traversal, so one action models the whole rule.  The trees  *)
(* it is run on are not tied to the text: a plugin may have changed the    *)
(* tree after it was parsed.                                               *)
(***************************************************************************)
NewlineTexts == SeqsUpTo({"a", "\n", "\r"}, MaxChars)

NewlineTrees ==
    {TreeOf(<<>>),
     TreeOf(<<Snippet("paragraph", <<"a">>, <<Kid("text", 0, 1)>>)>>),
     TreeOf(<<GeneratedSnippet("paragraph")>>)}

\* remarkLintFinalNewline, had it not made an exception of the empty file
remarkLintFinalNewlineAlsoEmpty ==
    /\ rule = "remarkLintFinalNewline"
    /\ pc = "start"
    /\ LET value == contents
           final == Len(value) - 1
       IN  messages' =
             IF CharAt(value, final) # "\n"
             THEN Append(messages,
                         Message("Missing newline character at end of file",
                                 JsUndefined, 0, NoPoint))
             ELSE messages
    /\ pc' = "visit"
    /\ UNCHANGED <<others, rule, options, contents, tree, todo, preferred, map, stack, last>>

\* remarkLintFinalNewline
remarkLintFinalNewline ==
    /\ rule = "remarkLintFinalNewline"
    /\ pc = "start"
    /\ LET value == contents
           final == Len(value) - 1
       IN  messages' =
             IF final > -1 /\ CharAt(value, final) # "\n"
             THEN Append(messages,
                         Message("Missing newline character at end of file",
                                 JsUndefined, 0, NoPoint))
             ELSE messages
    /\ pc' = "visit"
    /\ UNCHANGED <<others, rule, options, contents, tree, todo, preferred, map, stack, last>>

InitFinalNewline ==
    /\ rule = "remarkLintFinalNewline"
    /\ options = JsUndefined
    /\ contents \in NewlineTexts
    /\ tree \in NewlineTrees
    /\ Fresh

NextFinalNewline == remarkLintFinalNewline

SpecFinalNewline == InitFinalNewline /\ [][NextFinalNewline]_vars

\* the text of the file ends with a line feed
EndsWithLineFeed == contents # <<>> /\ contents[Len(contents)] = "\n"

\* C15 as claimed: when final-newline has returned there is exactly one
\* message, without position, if the text does not end with a line feed,
\* and no message if it does, whatever the tree.
C15_OneUnlessLineFeed ==
    (rule = "remarkLintFinalNewline" /\ Returned) =>
        IF EndsWithLineFeed THEN messages = <<>>
        ELSE /\ Len(messages) = 1
             /\ messages[1].place = NoPoint
             /\ messages[1].node = 0

\* C15 as amended: when final-newline has returned there is exactly one
\* message, without position, if the text is not empty and does not end
\* with a line feed, and no message if it is empty or ends with a line feed,
\* whatever the tree.
C15_OneUnlessEmptyOrLineFeed ==
    (rule = "remarkLintFinalNewline" /\ Returned) =>
        IF contents = <<>> \/ EndsWithLineFeed THEN messages = <<>>
        ELSE /\ Len(messages) = 1
             /\ ~messages[1].fatal
             /\ messages[1].place = NoPoint
             /\ messages[1].node = 0

\* a text that ends in a carriage return, reported on a tree with a
\* positioned paragraph
C15_Witness ==
    /\ rule = "remarkLintFinalNewline" /\ Returned
    /\ contents = <<"a", "\n", "\r">>
    /\ Len(tree) = 3 /\ ~generated(tree[2])
    /\ Len(messages) = 1 /\ messages[1].place = NoPoint

(***************************************************************************)
(* A rule that is run on one document after another.  The processor calls  *)
(* the function of the rule once per file, with the tree and the file of   *)
(* that document; variables declared inside the function are made anew by  *)
(* its set-up, and nothing else is touched between two calls.  Three runs  *)
(* are made: on a document D2, on a document D1, and on D2 again.          *)
(***************************************************************************)
\* the current run
Context ==
    [rule |-> rule, options |-> options, contents |-> contents, tree |-> tree,
     pc |-> pc, todo |-> todo, preferred |-> preferred, map |-> map,
     stack |-> stack, last |-> last, messages |-> messages]

RunRules ==
    {"linkTitleStyle", "remarkLintNoDuplicateHeadings",
     "noDuplicateHeadingsInSection"}

RunPaletteOf(r) ==
    IF r = "linkTitleStyle"
    THEN {Snippet("link", LinkText("a", <<"\"", "t", "\"">>), <<Kid("text", 1, 2)>>),
          Snippet("link", LinkText("a", <<"'", "t", "'">>), <<Kid("text", 1, 2)>>),
          Snippet("link", <<"[", "a", "]", "(", "u", ")">>, <<Kid("text", 1, 2)>>)}
    ELSE {HeadingSnippet(1, Foo), HeadingSnippet(2, Foo), HeadingSnippet(2, Bar)}

RunOptionsOf(r) ==
    IF r = "linkTitleStyle"
    THEN {JsUndefined, JsStr(<<"\"">>), JsStr(<<"x">>)}
    ELSE {JsUndefined}

\* the rule has returned or thrown and is called on the next document, with
\* a file that has no message yet
NextDocument ==
    /\ Returned \/ Failed
    /\ Len(others) < 2
    /\ others' = Append(others, Context)
    /\ IF others = <<>>
       THEN \E items \in SeqsUpTo(RunPaletteOf(rule), MaxRunNodes) :
               /\ contents' = SourceOf(items)
               /\ tree' = TreeOf(items)
       ELSE /\ contents' = others[1].contents
            /\ tree' = others[1].tree
    /\ messages' = <<>>
    /\ todo' = <<>>
    /\ pc' = "start"
    /\ UNCHANGED <<rule, options, preferred, map, stack, last>>

InitRuns ==
    /\ rule \in RunRules
    /\ options \in RunOptionsOf(rule)
    /\ \E items \in SeqsUpTo(RunPaletteOf(rule), MaxRunNodes) :
          /\ contents = SourceOf(items)
          /\ tree = TreeOf(items)
    /\ Fresh

NextRuns ==
    \/ linkTitleStyleSetup
    \/ linkTitleStyleVisit
    \/ remarkLintNoDuplicateHeadingsSetup
    \/ remarkLintNoDuplicateHeadingsVisit
    \/ noDuplicateHeadingsInSectionSetup
    \/ noDuplicateHeadingsInSectionVisit
    \/ NextDocument

SpecRuns == InitRuns /\ [][NextRuns]_vars

\* C16: runs are independent: when a rule has been run on D2, then on D1
\* and then on D2 again, the last run ends as the first one, which was made
\* on D2 alone, and has the same messages.
C16_RunsIndependent ==
    (Len(others) = 2 /\ (Returned \/ Failed)) =>
        /\ others[1].tree = tree /\ others[1].contents = contents
        /\ messages = others[1].messages
        /\ pc = others[1].pc

\* D1 has the headings of D2, which are not repeated inside D2: the run on
\* D1 has left a scope stack behind, and the run on D2 still reports nothing
C16_Witness ==
    /\ rule = "noDuplicateHeadingsInSection"
    /\ Len(others) = 2 /\ Returned
    /\ others[2].tree = tree /\ Len(tree) > 1
    /\ others[2].stack # <<>>
    /\ messages = <<>>

(***************************************************************************)
(* Two rules over one tree: rule-style and no-duplicate-headings.  Each    *)
(* rule is first run alone, then the two are run together, a step of one   *)
(* between two steps of the other in any order.  A rule has its own        *)
(* options, position in the traversal and variables (they are those of a   *)
(* call of its function); the tree and the file, with its list of          *)
(* messages, are the same for both.                                        *)
(***************************************************************************)
TogetherPalette ==
    {Snippet("thematicBreak", Stars, <<>>), Snippet("thematicBreak", Dashes, <<>>),
     HeadingSnippet(1, Foo), HeadingSnippet(2, Foo)}

\* the options of remarkLintRuleStyle with which it does not throw
TogetherOptions == {JsUndefined, JsStr(Dashes)}

\* a call of rule r that has not begun
Called(r, o) ==
    [rule |-> r, options |-> o, contents |-> contents, tree |-> tree,
     pc |-> "start", todo |-> <<>>, preferred |-> JsUndefined, map |-> <<>>,
     stack |-> <<>>, last |-> 0, messages |-> <<>>]

\* remarkLintRuleStyle has returned: remarkLintNoDuplicateHeadings is run
\* alone on the same tree, with a file that has no message yet
NextRule ==
    /\ rule = "remarkLintRuleStyle"
    /\ Returned
    /\ others = <<>>
    /\ others' = <<Context>>
    /\ rule' = "remarkLintNoDuplicateHeadings"
    /\ options' = JsUndefined
    /\ pc' = "start"
    /\ todo' = <<>>
    /\ preferred' = JsUndefined
    /\ map' = <<>>
    /\ messages' = <<>>
    /\ UNCHANGED <<contents, tree, stack, last>>

\* both rules have been run alone: they are now called on one file
Together ==
    /\ rule = "remarkLintNoDuplicateHeadings"
    /\ Returned
    /\ Len(others) = 1
    /\ others' = <<others[1], Context,
                   Called("remarkLintRuleStyle", others[1].options)>>
    /\ pc' = "start"
    /\ todo' = <<>>
    /\ map' = <<>>
    /\ messages' = <<>>
    /\ UNCHANGED <<rule, options, contents, tree, preferred, stack, last>>

\* the other rule takes the next step
Switch ==
    /\ Len(others) = 3
    /\ others' = [others EXCEPT ![3] = [Context EXCEPT !.messages = <<>>]]
    /\ rule' = others[3].rule
    /\ options' = others[3].options
    /\ pc' = others[3].pc
    /\ todo' = others[3].todo
    /\ preferred' = others[3].preferred
    /\ map' = others[3].map
    /\ stack' = others[3].stack
    /\ last' = others[3].last
    /\ UNCHANGED <<contents, tree, messages>>

InitTogether ==
    /\ rule = "remarkLintRuleStyle"
    /\ options \in TogetherOptions
    /\ \E items \in SeqsUpTo(TogetherPalette, MaxTogether) :
          /\ contents = SourceOf(items)
          /\ tree = TreeOf(items)
    /\ Fresh

NextTogether ==
    \/ remarkLintRuleStyleSetup
    \/ remarkLintRuleStyleVisit
    \/ remarkLintNoDuplicateHeadingsSetup
    \/ remarkLintNoDuplicateHeadingsVisit
    \/ NextRule
    \/ Together
    \/ Switch

SpecTogether == InitTogether /\ [][NextTogether]_vars

\* the messages of the file that come from rule r
MessagesOf(r) ==
    SelectSeq(messages,
              LAMBDA m : m.text = IF r = "remarkLintRuleStyle"
                                  THEN "Rules should use"
                                  ELSE "Do not use headings with similar content")

\* the two rules that were run together have both returned
TogetherDone ==
    /\ Len(others) = 3
    /\ Returned
    /\ others[3].pc = "visit" /\ others[3].todo = <<>>

\* when the two rules have been run together, each has the messages it has
\* when run alone
SameAsAlone ==
    TogetherDone =>
        /\ MessagesOf("remarkLintRuleStyle") = others[1].messages
        /\ MessagesOf("remarkLintNoDuplicateHeadings") = others[2].messages
        /\ Len(messages) = Len(others[1].messages) + Len(others[2].messages)

\* C17: however the steps of the two rules are interleaved, each rule ends
\* with the messages it has when run alone, and no step of either rule
\* changes the tree.
C17_RulesDoNotInterfere == []SameAsAlone /\ [][tree' = tree]_vars

\* both rules have reported something, and the message about the later
\* node was produced before the message about the earlier one
C17_Witness ==
    /\ TogetherDone
    /\ others[1].messages # <<>>
    /\ others[2].messages # <<>>
    /\ \E k \in 1..(Len(messages) - 1) : messages[k].node > messages[k + 1].node

(***************************************************************************)
(* final-definition on a document and on the same document without its    *)
(* HTML comments, the other nodes staying on their lines.                  *)
(***************************************************************************)
\* the HTML comments of tree t
CommentsOf(t) ==
    {k \in 1..Len(t) : t[k].type = "html" /\ IsComment(t[k].value)}

\* tree t without the nodes of S, which have no children
Without(t, S) ==
    LET kept == SelectSeq([k \in 1..Len(t) |-> k], LAMBDA k : k \notin S)
    IN  [n \in 1..Len(kept) |->
            [t[kept[n]] EXCEPT
                !.parent = IF @ = 0 THEN 0
                           ELSE @ - Cardinality({k \in S : k < @})]]

\* the rule has returned: it is called on the document without its comments
WithoutComments ==
    /\ rule = "remarkLintFinalDefinition"
    /\ Returned
    /\ others = <<>>
    /\ others' = <<Context>>
    /\ tree' = Without(tree, CommentsOf(tree))
    /\ messages' = <<>>
    /\ todo' = <<>>
    /\ pc' = "start"
    /\ UNCHANGED <<rule, options, contents, preferred, map, stack, last>>

NextComments ==
    \/ remarkLintFinalDefinitionSetup
    \/ remarkLintFinalDefinitionVisit
    \/ WithoutComments

SpecComments == InitFinalDefinition /\ [][NextComments]_vars

\* what a run has reported: for every message, in order, the line of the
\* definition and the line cited
Outcome(t, reported) ==
    [k \in 1..Len(reported) |->
        <<t[reported[k].node].start.line, reported[k].arg>>]

\* C21: HTML comments are transparent to final-definition: the run on a
\* document and the run on that document without its HTML comments flag
\* the definitions of the same lines and cite the same line.
C21_CommentsTransparent ==
    (rule = "remarkLintFinalDefinition" /\ Len(others) = 1 /\ Returned) =>
        Outcome(tree, messages) = Outcome(others[1].tree, others[1].messages)

\* a document with a comment after a flagged definition and before the
\* content: the definition is flagged with and without the comment
C21_Witness ==
    /\ rule = "remarkLintFinalDefinition" /\ Len(others) = 1 /\ Returned
    /\ Len(messages) = 1
    /\ \E c \in CommentsOf(others[1].tree) :
          /\ others[1].tree[c].start.line
                > others[1].tree[others[1].messages[1].node].start.line
          /\ others[1].tree[c].start.line < others[1].messages[1].arg.value

(***************************************************************************)
(* The scopes of no-duplicate-headings-in-section.                         *)
(***************************************************************************)
\* the texts recorded in the scope of depth k of stack s, and what is
\* recorded for each
HeldAt(s, k) ==
    IF k <= Len(s) /\ Truthy(s[k]) THEN s[k].entries ELSE <<>>

\* C22: a call of the visitor of no-duplicate-headings-in-section for a
\* heading of depth d leaves no scope for a depth greater than d; every
\* text recorded at a depth up to d is still recorded there, for the same
\* heading unless it is the text of the visited heading at depth d, which
\* is recorded for the visited heading.
C22_ScopesKept ==
    [][noDuplicateHeadingsInSectionVisit =>
          LET h == Head(todo)
              d == tree[h].depth
              value == toUpperCase(toString(tree, h))
          IN  /\ Len(stack') <= d
              /\ Get(HeldAt(stack', d), value) = JsNum(h)
              /\ \A k \in 1..d :
                    \A key \in DOMAIN HeldAt(stack, k) :
                       /\ key \in DOMAIN HeldAt(stack', k)
                       /\ (k # d \/ key # value) =>
                             HeldAt(stack', k)[key] = HeldAt(stack, k)[key]]_vars

\* a heading deeper than the previous one has been visited while its own
\* depth and a shallower one held entries, and all of them are still held
C22_Witness ==
    /\ rule = "noDuplicateHeadingsInSection"
    /\ pc = "visit"
    /\ Len(stack) = 3
    /\ Cardinality(DOMAIN HeldAt(stack, 1)) = 1
    /\ Cardinality(DOMAIN HeldAt(stack, 2)) = 1
    /\ Cardinality(DOMAIN HeldAt(stack, 3)) = 2

(***************************************************************************)
(* The preferred value of the consistency rules during a run.              *)
(***************************************************************************)
\* the nodes the visitor has been called for and that qualify, in order
Seen ==
    LET all == Matching(tree, TypesOf(rule), 1)
        done == SubSeq(all, 1, Len(all) - Len(todo))
    IN  SelectSeq(done, LAMBDA i : Qualifies(rule, i))

\* no preferred value yet
Unset(p) == p = Consistent \/ ~Truthy(p)

\* C23: during the visits of rule-style, blockquote-indentation and
\* link-title-style the preferred value is the configured one when there
\* is one; otherwise it is unset as long as no qualifying node was visited
\* and is what the first qualifying node showed from then on.
C23_PreferredFirstSeen ==
    (rule \in ConsistencyRules /\ pc = "visit") =>
        IF IsConfigured
        THEN preferred = ConfiguredValue
        ELSE IF Seen = <<>> THEN Unset(preferred)
        ELSE ~Unset(preferred) /\ preferred = Observed(rule, Seen[1])

\* a run that infers the value has met a node that does not qualify, then
\* two qualifying nodes that differ, and holds what the first one showed
C23_Witness ==
    /\ rule \in ConsistencyRules /\ Returned
    /\ ~IsConfigured
    /\ Len(Seen) = 2
    /\ Seen[1] # Matching(tree, TypesOf(rule), 1)[1]
    /\ Observed(rule, Seen[1]) # Observed(rule, Seen[2])
    /\ preferred = Observed(rule, Seen[1])

\* the same with a configured value that none of the visited nodes shows
C23_Configured ==
    /\ rule \in ConsistencyRules /\ Returned
    /\ IsConfigured
    /\ Len(Seen) = 2
    /\ \A k \in 1..2 : Observed(rule, Seen[k]) # preferred

(***************************************************************************)
(* The early exits of the visitor of link-title-style.                     *)
(***************************************************************************)
\* the four cases in which the comments of check say that it exits, for a
\* node that is not generated, the offsets compared as numbers
Exits(text, t, i) ==
    LET node == t[i]
        kids == Children(t, i)
        begin == IF kids # <<>> THEN t[kids[Len(kids)]].end ELSE node.start
        from == IF node.type # "definition"
                THEN node.end.offset - 2 ELSE node.end.offset - 1
        back == SkipBack(text, from, "")
        first == LastIndexOf(text, markers[back.final], back.last - 1)
    IN  \/ back.final \notin DOMAIN markers
        \/ first = -1
        \/ first <= begin.offset
        \/ ~IsWhitespace(CharAt(text, first - 1))

\* C24: a call of the visitor of link-title-style on a link, image or
\* definition whose closing character is not a title marker, or whose
\* opening delimiter is missing, lies before the start of the node or the
\* end of its last child, or is not preceded by whitespace, changes neither
\* the messages nor the preferred quote.
C24_ExitsIgnore ==
    [][(/\ linkTitleStyleVisit
        /\ ~generated(tree[Head(todo)])
        /\ Exits(contents, tree, Head(todo)))
          => UNCHANGED <<preferred, messages>>]_vars

\* the same for three of the four cases: the closing character is not a
\* title marker, no opening delimiter is found, or the opening delimiter
\* is not preceded by whitespace
C24_ExitsOfTheCode ==
    [][(/\ linkTitleStyleVisit
        /\ ~generated(tree[Head(todo)])
        /\ ~TitleOf(contents, tree, Head(todo)).title)
          => UNCHANGED <<preferred, messages>>]_vars

\* a link whose opening delimiter lies in its text has been taken for a
\* link with a title
C24_Witness ==
    /\ rule = "linkTitleStyle"
    /\ pc = "visit"
    /\ \E m \in 1..Len(messages) :
          LET i == messages[m].node
          IN  ~generated(tree[i]) /\ Exits(contents, tree, i)

(***************************************************************************)
(* list-item-spacing.  A document is one list, with or without a list     *)
(* without position before it.  Every child of an item takes one line; an *)
(* item starts on the line of its first child and ends on the line of its *)
(* last child.  The rule reads only the line of a point.  `preferred`     *)
(* holds `infer`, the function the rule chooses from its option.          *)
(***************************************************************************)
reasonLoose == "Missing new line after list item"
reasonTight == "Extraneous new line after list item"

inferBlankLineFn == [kind |-> "function", name |-> "inferBlankLine"]
inferMultilineFn == [kind |-> "function", name |-> "inferMultiline"]

\* an options object
CheckBlanks(checkBlanks) == [kind |-> "object", checkBlanks |-> checkBlanks]

ListOptions ==
    {JsUndefined, CheckBlanks(JsBool(TRUE)), CheckBlanks(JsBool(FALSE)),
     CheckBlanks(JsUndefined), JsStr(<<"x">>)}

\* the children of an item: for each child after the first, by how many
\* lines it starts after the child before it (1: the next line, 2: one
\* blank line between them)
ItemShapes == {<<0>>, <<0, 1>>, <<0, 2>>}

\* an item and by how many lines it starts after the end of the item
\* before it
ItemKinds == [shape : ItemShapes, gap : {1, 2}]

\* the nodes of the items k.. of list l, item k being node `at` of the tree
\* and a child of node `list`; the item before it ends on line `line`
RECURSIVE ItemNodes(_, _, _, _, _)
ItemNodes(l, k, list, at, line) ==
    IF k > Len(l) THEN <<>>
    ELSE LET shape == l[k].shape
             start == IF k = 1 THEN line ELSE line + l[k].gap
             end == start + (IF Len(shape) = 2 THEN shape[2] ELSE 0)
         IN  <<Node("listItem", list, LinePoint(start), LinePoint(end))>>
             \o [c \in 1..Len(shape) |->
                    Node("paragraph", at,
                         LinePoint(IF c = 1 THEN start ELSE end),
                         LinePoint(IF c = 1 THEN start ELSE end))]
             \o ItemNodes(l, k + 1, list, at + 1 + Len(shape), end)

\* the tree of a document with the list l
ListTree(l, withGenerated) ==
    LET before == IF withGenerated
                  THEN <<Node("list", 1, NoPoint, NoPoint)>> ELSE <<>>
        list == 2 + Len(before)
        items == ItemNodes(l, 1, list, list + 1, 1)
        end == items[Len(items)].end
    IN  <<Node("root", 0, LinePoint(1), end)>> \o before
        \o <<Node("list", 1, LinePoint(1), end)>> \o items

\* inferBlankLine
inferBlankLine(t, i) ==
    LET children == Children(t, i)
    IN  \E index \in 1..(Len(children) - 1) :
           t[children[index + 1]].start.line - t[children[index]].end.line > 1

\* inferMultiline
inferMultiline(t, i) ==
    LET children == Children(t, i)
    IN  t[children[Len(children)]].end.line - t[children[1]].start.line > 0

\* infer(node)
infer(fn, t, i) ==
    IF fn = inferBlankLineFn THEN inferBlankLine(t, i) ELSE inferMultiline(t, i)

\* listItemSpacingSetup, had it looked for multiline items whatever the
\* option
listItemSpacingSetupMultiline ==
    /\ rule = "listItemSpacing"
    /\ pc = "start"
    /\ preferred' = inferMultilineFn
    /\ todo' = Matching(tree, {"list"}, 1)
    /\ pc' = "visit"
    /\ UNCHANGED <<others, rule, options, contents, tree, map, stack, last, messages>>

\* listItemSpacing, up to the call of visit
listItemSpacingSetup ==
    /\ rule = "listItemSpacing"
    /\ pc = "start"
    /\ preferred' = IF /\ Truthy(options)
                       /\ options.kind = "object"
                       /\ Truthy(options.checkBlanks)
                    THEN inferBlankLineFn ELSE inferMultilineFn
    /\ todo' = Matching(tree, {"list"}, 1)
    /\ pc' = "visit"
    /\ UNCHANGED <<others, rule, options, contents, tree, map, stack, last, messages>>

\* one call of the visitor of listItemSpacing; a message is kept with the
\* item after which it asks for or refuses a blank line
listItemSpacingVisit ==
    /\ rule = "listItemSpacing"
    /\ pc = "visit"
    /\ todo # <<>>
    /\ LET node == tree[Head(todo)]
           children == Children(tree, Head(todo))
           length == Len(children)
           tight == ~\E index \in 1..length : infer(preferred, tree, children[index])
           pairs == SelectSeq([index \in 1..(length - 1) |-> index],
                       LAMBDA index :
                          (tree[children[index + 1]].start.line
                             - tree[children[index]].end.line < 2) # tight)
       IN  IF ~generated(node)
           THEN messages' = messages \o
                   [m \in 1..Len(pairs) |->
                       Message(IF tight THEN reasonTight ELSE reasonLoose,
                               JsUndefined, children[pairs[m]],
                               [start |-> tree[children[pairs[m]]].end,
                                end |-> tree[children[pairs[m] + 1]].start])]
           ELSE UNCHANGED messages
    /\ todo' = Tail(todo)
    /\ UNCHANGED <<others, rule, options, contents, tree, pc, preferred, map, stack, last>>

InitListItemSpacing ==
    /\ rule = "listItemSpacing"
    /\ options \in ListOptions
    /\ tree \in {ListTree(l, g) :
                   l \in SeqsUpTo(ItemKinds, MaxItems) \ {<<>>}, g \in BOOLEAN}
    /\ contents = <<>>
    /\ Fresh

NextListItemSpacing ==
    \/ listItemSpacingSetup
    \/ listItemSpacingVisit

SpecListItemSpacing == InitListItemSpacing /\ [][NextListItemSpacing]_vars

\* the option asks for checkBlanks
WithCheckBlanks == options.kind = "object" /\ Truthy(options.checkBlanks)

\* the list i must be loose: one of its items spans more than one line or,
\* with checkBlanks, has two consecutive children more than one line apart
MustBeLoose(i) ==
    \E item \in {k \in 1..Len(tree) : tree[k].parent = i} :
        LET kids == Children(tree, item)
        IN  IF WithCheckBlanks
            THEN \E c \in 1..(Len(kids) - 1) :
                    tree[kids[c + 1]].start.line > tree[kids[c]].end.line + 1
            ELSE tree[item].end.line > tree[item].start.line

\* how many messages with the given text are kept with item i
CountOf(text, i) ==
    Cardinality({k \in 1..Len(messages) :
                    messages[k].node = i /\ messages[k].text = text})

\* C25: when list-item-spacing has returned, every item of a positioned
\* list that is followed by an item has one message 'Missing new line
\* after list item' if the list must be loose and the next item starts
\* less than 2 lines after its end, and none otherwise; one message
\* 'Extraneous new line after list item' if the list must be tight and
\* the next item starts 2 or more lines after its end, and none otherwise;
\* and there is no other message, so none for a list of one item.
C25_LooseOrTight ==
    (rule = "listItemSpacing" /\ Returned) =>
        LET lists == {i \in 1..Len(tree) :
                         tree[i].type = "list" /\ ~generated(tree[i])}
            Pairs == {p \in (1..Len(tree)) \X (1..Len(tree)) :
                         /\ tree[p[1]].parent \in lists
                         /\ tree[p[2]].parent = tree[p[1]].parent
                         /\ IndexInParent(tree, p[2])
                               = IndexInParent(tree, p[1]) + 1}
            Near(p) == tree[p[2]].start.line - tree[p[1]].end.line < 2
            Loose(p) == MustBeLoose(tree[p[1]].parent)
        IN  /\ \A p \in Pairs :
                 /\ CountOf(reasonLoose, p[1])
                       = IF Loose(p) /\ Near(p) THEN 1 ELSE 0
                 /\ CountOf(reasonTight, p[1])
                       = IF ~Loose(p) /\ ~Near(p) THEN 1 ELSE 0
            /\ \A k \in 1..Len(messages) :
                  \E p \in Pairs :
                     /\ messages[k].node = p[1]
                     /\ messages[k].place
                           = [start |-> tree[p[1]].end, end |-> tree[p[2]].start]

\* with checkBlanks, a list of three items of which one has children on
\* consecutive lines and one has a blank line between its children: the
\* list must be loose, and the one pair of items without a blank line
\* between them is reported
C25_Witness ==
    /\ rule = "listItemSpacing" /\ Returned
    /\ WithCheckBlanks
    /\ \E i \in 1..Len(tree) :
          /\ tree[i].type = "list" /\ ~generated(tree[i])
          /\ Len(Children(tree, i)) = 3
          /\ MustBeLoose(i)
          /\ \E item \in 1..Len(tree) :
                /\ tree[item].parent = i
                /\ inferMultiline(tree, item) /\ ~inferBlankLine(tree, item)
    /\ Len(messages) = 1
    /\ messages[1].text = reasonLoose

\* the same for a list that must be tight and has blank lines between items
C25_Tight ==
    /\ rule = "listItemSpacing" /\ Returned
    /\ Len(messages) = 2
    /\ messages[1].text = reasonTight
    /\ generated(tree[2])

(***************************************************************************)
(* The order of the messages of the rules that look for duplicates.        *)
(***************************************************************************)
\* the messages are those of nodes in document order, and each cites the
\* start of a node of the same key (and, for headings in a section, of the
\* same depth) that comes before the node of the message
InDocumentOrder ==
    rule \in DuplicateRules =>
        /\ \A k \in 1..Len(messages), l \in 1..Len(messages) :
              k < l => messages[k].node < messages[l].node
        /\ \A k \in 1..Len(messages) :
              \E j \in 1..(messages[k].node - 1) :
                 /\ tree[j].type \in KeyedTypes
                 /\ KeyOf(j) = KeyOf(messages[k].node)
                 /\ rule = "noDuplicateHeadingsInSection" =>
                       tree[j].depth = tree[messages[k].node].depth
                 /\ messages[k].arg = stringifyPosition(tree[j].start)

\* a step keeps the messages there are, in their order, and adds at most
\* one after them, for the node it visits
OnlyAppended ==
    \/ messages' = messages
    \/ /\ Len(messages') = Len(messages) + 1
       /\ SubSeq(messages', 1, Len(messages)) = messages
       /\ messages'[Len(messages')].node = Head(todo)

\* C26: in no-duplicate-headings, no-duplicate-definitions and
\* no-duplicate-headings-in-section the messages are in document order of
\* their nodes, a message once appended is neither moved nor removed, and
\* the node a message cites comes before the node of the message.
C26_AppendedInOrder == []InDocumentOrder /\ [][OnlyAppended]_vars

\* two messages that cite different places
C26_Witness ==
    /\ rule \in DuplicateRules /\ Returned
    /\ Len(messages) >= 2
    /\ messages[1].arg # messages[2].arg
    /\ messages[1].node < messages[2].node

(***************************************************************************)
(* no-duplicate-headings-in-section and no-duplicate-headings on the same  *)
(* document, all of whose headings have a position.                        *)
(***************************************************************************)
PositionedHeadings ==
    {HeadingSnippet(1, Foo), HeadingSnippet(2, Foo), HeadingSnippet(2, Bar),
     HeadingSnippet(3, Foo), HeadingSnippet(3, toLowerCase(Foo))}

\* no-duplicate-headings-in-section has returned: no-duplicate-headings is
\* called on the same tree, with a file that has no message yet
OtherRule ==
    /\ rule = "noDuplicateHeadingsInSection"
    /\ Returned
    /\ others = <<>>
    /\ others' = <<Context>>
    /\ rule' = "remarkLintNoDuplicateHeadings"
    /\ messages' = <<>>
    /\ todo' = <<>>
    /\ pc' = "start"
    /\ UNCHANGED <<options, contents, tree, preferred, map, stack, last>>

InitSections ==
    /\ rule = "noDuplicateHeadingsInSection"
    /\ options = JsUndefined
    /\ \E items \in SeqsUpTo(PositionedHeadings, MaxSections) :
          /\ contents = SourceOf(items)
          /\ tree = TreeOf(items)
    /\ Fresh

NextSections ==
    \/ noDuplicateHeadingsInSectionSetup
    \/ noDuplicateHeadingsInSectionVisit
    \/ OtherRule
    \/ remarkLintNoDuplicateHeadingsSetup
    \/ remarkLintNoDuplicateHeadingsVisit

SpecSections == InitSections /\ [][NextSections]_vars

\* the nodes of the messages of a run
Flagged(reported) == {reported[k].node : k \in 1..Len(reported)}

\* C27: on a tree all of whose headings have a position, every heading
\* that no-duplicate-headings-in-section reports is reported by
\* no-duplicate-headings.
C27_SectionWithinDocument ==
    (rule = "remarkLintNoDuplicateHeadings" /\ Len(others) = 1 /\ Returned) =>
        /\ others[1].tree = tree
        /\ \A i \in 1..Len(tree) : tree[i].type = "heading" => ~generated(tree[i])
        /\ Flagged(others[1].messages) \subseteq Flagged(messages)

\* a heading repeated in its section and a heading repeated only in the
\* document: the first is reported by both rules, the second by one
C27_Witness ==
    /\ rule = "remarkLintNoDuplicateHeadings" /\ Len(others) = 1 /\ Returned
    /\ Flagged(others[1].messages) # {}
    /\ Flagged(others[1].messages) # Flagged(messages)

(***************************************************************************)
(* no-reference-like-url.  A document is a sequence of links, images and   *)
(* definitions, one on each line; a link or an image has a field `url`.    *)
(* `map` holds the set `identifiers`, as the map of its members to true.   *)
(* The rule visits the tree twice: pc is "collect" during the first visit. *)
(***************************************************************************)
\* a kind of link or image, with its url
Resource(type, url) ==
    [type |-> type, url |-> url, identifier |-> <<>>, generated |-> FALSE]

\* a kind of definition, with its identifier
Definition(identifier) ==
    [type |-> "definition", url |-> <<"u">>, identifier |-> identifier,
     generated |-> FALSE]

ReferenceKinds ==
    {Resource("link", <<"a">>), Resource("link", <<"b">>),
     Resource("image", <<"A">>),
     Definition(<<"a">>), Definition(<<"B">>),
     [Resource("link", <<"a">>) EXCEPT !.generated = TRUE],
     [Definition(<<"B">>) EXCEPT !.generated = TRUE]}

\* the tree of a document made of the given kinds
ReferenceTree(kinds) ==
    <<Node("root", 0, LinePoint(1), LinePoint(Len(kinds) + 1))>>
    \o [k \in 1..Len(kinds) |->
           [url |-> kinds[k].url]
           @@ [Node(kinds[k].type, 1,
                    IF kinds[k].generated THEN NoPoint ELSE LinePoint(k),
                    IF kinds[k].generated THEN NoPoint ELSE LinePoint(k))
               EXCEPT !.identifier = kinds[k].identifier]]

\* remarkLintNoReferenceLikeUrl, up to the first call of visit
remarkLintNoReferenceLikeUrlSetup ==
    /\ rule = "remarkLintNoReferenceLikeUrl"
    /\ pc = "start"
    /\ map' = <<>>
    /\ todo' = Matching(tree, {"definition"}, 1)
    /\ pc' = "collect"
    /\ UNCHANGED <<others, rule, options, contents, tree, preferred, stack, last,
                   messages>>

\* one call of the visitor of the first visit
remarkLintNoReferenceLikeUrlCollect ==
    /\ rule = "remarkLintNoReferenceLikeUrl"
    /\ pc = "collect"
    /\ todo # <<>>
    /\ map' = Set(map, toLowerCase(tree[Head(todo)].identifier), JsBool(TRUE))
    /\ todo' = Tail(todo)
    /\ UNCHANGED <<others, rule, options, contents, tree, pc, preferred, stack, last,
                   messages>>

\* the first visit has returned: the second call of visit
remarkLintNoReferenceLikeUrlSecond ==
    /\ rule = "remarkLintNoReferenceLikeUrl"
    /\ pc = "collect"
    /\ todo = <<>>
    /\ todo' = [k \in 1..Len(tree) |-> k]
    /\ pc' = "visit"
    /\ UNCHANGED <<others, rule, options, contents, tree, preferred, map, stack, last,
                   messages>>

\* the visitor of the second visit, had it looked for the url as it is
\* written
remarkLintNoReferenceLikeUrlVisitExact ==
    /\ rule = "remarkLintNoReferenceLikeUrl"
    /\ pc = "visit"
    /\ todo # <<>>
    /\ LET node == tree[Head(todo)]
       IN  IF /\ ~generated(node)
              /\ node.type \in {"image", "link"}
              /\ node.url \in DOMAIN map
           THEN messages' = Append(messages,
                    Message("Did you mean to use [] instead of (), a reference?",
                            JsStr(node.url), Head(todo),
                            [start |-> node.start, end |-> node.end]))
           ELSE UNCHANGED messages
    /\ todo' = Tail(todo)
    /\ UNCHANGED <<others, rule, options, contents, tree, pc, preferred, map, stack,
                   last>>

\* one call of the visitor of the second visit
remarkLintNoReferenceLikeUrlVisit ==
    /\ rule = "remarkLintNoReferenceLikeUrl"
    /\ pc = "visit"
    /\ todo # <<>>
    /\ LET node == tree[Head(todo)]
       IN  IF /\ ~generated(node)
              /\ node.type \in {"image", "link"}
              /\ toLowerCase(node.url) \in DOMAIN map
           THEN messages' = Append(messages,
                    Message("Did you mean to use [] instead of (), a reference?",
                            JsStr(node.url), Head(todo),
                            [start |-> node.start, end |-> node.end]))
           ELSE UNCHANGED messages
    /\ todo' = Tail(todo)
    /\ UNCHANGED <<others, rule, options, contents, tree, pc, preferred, map, stack,
                   last>>

InitReferences ==
    /\ rule = "remarkLintNoReferenceLikeUrl"
    /\ options = JsUndefined
    /\ tree \in {ReferenceTree(kinds) :
                   kinds \in SeqsUpTo(ReferenceKinds, MaxReferences)}
    /\ contents = <<>>
    /\ Fresh

NextReferences ==
    \/ remarkLintNoReferenceLikeUrlSetup
    \/ remarkLintNoReferenceLikeUrlCollect
    \/ remarkLintNoReferenceLikeUrlSecond
    \/ remarkLintNoReferenceLikeUrlVisit

SpecReferences == InitReferences /\ [][NextReferences]_vars

\* the definitions of the document
DefinitionSet == {j \in 1..Len(tree) : tree[j].type = "definition"}

\* two texts are equal when the case of their letters is ignored
SameIgnoringCase(s, u) ==
    /\ Len(s) = Len(u)
    /\ \A k \in 1..Len(s) :
          \/ s[k] = u[k]
          \/ \E c \in 1..26 : {s[k], u[k]} = {LowerCase[c], UpperCase[c]}

\* the url of node i is the identifier of a definition of the document
ReferenceLike(i) ==
    \E j \in DefinitionSet : SameIgnoringCase(tree[i].url, tree[j].identifier)

\* C28: when no-reference-like-url has returned, a link or image has one
\* message if it has a position and its url is, the case of letters
\* ignored, the identifier of a definition before or after it, and none
\* otherwise, and no other node has a message; and no link is looked at
\* before the identifiers of all definitions have been collected.
C28_UrlIsIdentifier ==
    rule = "remarkLintNoReferenceLikeUrl" =>
        /\ Returned =>
              \A i \in 1..Len(tree) :
                 Count(i) = IF /\ tree[i].type \in {"link", "image"}
                               /\ ~generated(tree[i])
                               /\ ReferenceLike(i)
                            THEN 1 ELSE 0
        /\ pc = "visit" =>
              DOMAIN map = {toLowerCase(tree[j].identifier) : j \in DefinitionSet}
        /\ pc # "visit" => messages = <<>>

\* a link or image is reported whose url differs in case from the
\* identifier of the only definition it matches, which comes after it
C28_Witness ==
    /\ rule = "remarkLintNoReferenceLikeUrl" /\ Returned
    /\ \E i \in 1..Len(tree) :
          /\ Count(i) = 1
          /\ \A j \in DefinitionSet :
                SameIgnoringCase(tree[i].url, tree[j].identifier) =>
                    j > i /\ tree[i].url # tree[j].identifier

(***************************************************************************)
(* The order of the messages of final-definition.                          *)
(***************************************************************************)
\* C29: of two messages of final-definition, the one reported first is
\* that of the definition that comes later in the document.
C29_ReverseOrder ==
    rule = "remarkLintFinalDefinition" =>
        \A k \in 1..Len(messages), l \in 1..Len(messages) :
            k < l =>
               /\ messages[k].node > messages[l].node
               /\ tree[messages[k].node].start.line
                     > tree[messages[l].node].start.line

\* two definitions before a paragraph: both are reported, the second first
C29_Witness ==
    /\ rule = "remarkLintFinalDefinition" /\ Returned
    /\ Len(messages) = 2
    /\ messages[1].node > messages[2].node

(***************************************************************************)
(* Definitions and footnote definitions in no-duplicate-definitions.       *)
(***************************************************************************)
\* nodes j and i, j before i, are a positioned definition and a positioned
\* footnote definition, in either order, with the same identifier
AcrossTypes(j, i) ==
    /\ j < i
    /\ {tree[j].type, tree[i].type} = {"definition", "footnoteDefinition"}
    /\ ~generated(tree[j]) /\ ~generated(tree[i])
    /\ tree[j].identifier = tree[i].identifier

\* C30: when no-duplicate-definitions has returned, the later of a
\* positioned definition and a positioned footnote definition with the
\* same identifier has one message, and the message cites the start of
\* the earlier one when no node between them has that identifier.
C30_OneKeySpace ==
    (rule = "remarkLintNoDuplicateDefinitions" /\ Returned) =>
        \A i \in 1..Len(tree), j \in 1..Len(tree) :
            AcrossTypes(j, i) =>
               /\ Count(i) = 1
               /\ (\A b \in (j + 1)..(i - 1) :
                      tree[b].identifier # tree[i].identifier) =>
                     \E k \in 1..Len(messages) :
                        /\ messages[k].node = i
                        /\ messages[k].arg = stringifyPosition(tree[j].start)

\* a footnote definition after a definition and a definition after a
\* footnote definition, both reported
C30_Witness ==
    /\ rule = "remarkLintNoDuplicateDefinitions" /\ Returned
    /\ \E i \in 1..Len(tree), j \in 1..Len(tree) :
          /\ AcrossTypes(j, i) /\ tree[i].type = "footnoteDefinition"
          /\ Count(i) = 1
    /\ \E i \in 1..Len(tree), j \in 1..Len(tree) :
          /\ AcrossTypes(j, i) /\ tree[i].type = "definition"
          /\ Count(i) = 1

====
